---- MODULE Spec2Model ----
(***************************************************************************)
(* Model of the nested workflow invocation controller (run-workflow step)  *)
(* and of the sandbox session lifecycle of the agent and bash steps, with  *)
(* the database URL resolution, the production migration runner and the    *)
(* standalone-export template of the run-workflow step.                    *)
(*                                                                         *)
(* JavaScript is single threaded: the code between two awaits runs         *)
(* atomically, so every action below is one resumption of an async         *)
(* function, from the await it was suspended at up to the next await (or   *)
(* the return).  Collaborators that are not part of the repository (the    *)
(* database, the execution engine, the integration validator, the sandbox  *)
(* provider) are nondeterministic within their interface.                  *)
(***************************************************************************)
EXTENDS Integers, Sequences, FiniteSets, TLC

VARIABLES
    executions,   \* workflowExecutions table: sequence of rows, row id = index
    engine,       \* per execution id: state of the run started by start(executeWorkflow)
    pc,           \* per controller invocation: the await it is suspended at
    call,         \* per controller invocation: the RunWorkflowInput it was given
    frame,        \* per controller invocation: locals of runWorkflow / executeChildWorkflow
    result,       \* per controller invocation: the RunWorkflowResult it returned
    calls,        \* per controller invocation: collaborator calls issued so far
    probe,        \* one application of buildNextPath: its arguments and its result
    resolution,   \* one application of resolveVercelSandboxCredentials: token, result
    recovery,     \* one application of getParentPath: parent record, path, self-target
    clamp,        \* one evaluation of the maxSteps expression: request, ceiling
    agentOutput,       \* one application of parseAgentOutput: text, step count, data
    processEnv,   \* process.env: VERCEL_TEAM_ID and VERCEL_PROJECT_ID
    sandboxes,    \* remote sandbox handles created by VercelSandbox.create
    stepPc,       \* per agent / bash step invocation: the await it is suspended at
    stepInput,    \* per step invocation: its input
    stepLocal,    \* per step invocation: locals of stepHandler and of the session factory
    stepResult,   \* per step invocation: the result it returned
    stepCalls,    \* per step invocation: collaborator calls issued so far
    runner,       \* one run of the migration script: its process state
    lookup,       \* one application of the database URL resolvers: env, results
    exported      \* one call of the exported runWorkflowStep: its input, its result

ctlVars == <<executions, engine, pc, call, frame, result, calls>>

scriptVars == <<runner, lookup, exported>>

pathVars == <<probe, resolution, recovery, clamp, agentOutput, scriptVars>>

sandboxVars == <<processEnv, sandboxes, stepPc, stepInput, stepLocal, stepResult, stepCalls>>

vars == <<ctlVars, pathVars, sandboxVars>>

(***************************************************************************)
(* Bounds of the model.                                                    *)
(***************************************************************************)
NumInvocations == 2

Invocations == 1..NumInvocations

\* Longest parent path handed to buildNextPath.
MaxProbeLen == 11

\* Largest number of dot-separated segments of a sandbox token.
MaxSegments == 4

\* Number of agent / bash step invocations.
NumSteps == 2

\* Longest path array of an envelope handed to extractRunWorkflowMeta.
MaxEnvelopePath == 2

\* Number of nested invocations of one chain: each child run invokes the step
\* once.
MaxChain == 10

\* Largest magnitude of the integer a maxSteps request starts with.
MaxRequest == 53

\* Largest number of steps handed to parseAgentOutput.
MaxStepsUsed == 3

Steps == 1..NumSteps

(***************************************************************************)
(* Program constants and value universes.                                  *)
(***************************************************************************)
MAX_NESTED_DEPTH == 10

\* JS null / undefined in a string-typed slot.
Null == "<null>"

\* A non-string JSON value in a slot the code tests with typeof.
NonString == "<non-string>"

\* A JSON value that is not an object (null, a string, a number) in a slot
\* that holds objects: a function whose only key is PRIMITIVE.
PRIMITIVE == "<primitive>"

Primitive(type) == [k \in {PRIMITIVE} |-> type]

\* The workflows of user u1 in the order a chain of nested invocations
\* visits them: w1, w2, w5, w6, ...
ChainIds == [k \in 1..(MaxChain + 1) |-> "w" \o ToString(IF k <= 2 THEN k ELSE k + 2)]

\* The workflows table: id -> owning user.  "w3" belongs to another user and
\* "w4" is an id with no row.
WorkflowOwner ==
    [w \in {ChainIds[k] : k \in DOMAIN ChainIds} \cup {"w3"} |->
        IF w = "w3" THEN "u2" ELSE "u1"]

StoredWorkflowIds == DOMAIN WorkflowOwner

TargetIds == {"w1", "w2", "w3", "w4"}

META_KEY == "__runWorkflowMeta"

\* Caller payloads (the parsed workflowInput): a plain object, and an object
\* that itself carries an envelope key.
PlainPayload == [k \in {"data"} |-> [str |-> "v"]]

ForgedMeta == [path |-> <<"w3">>, parentExecutionId |-> 1, parentWorkflowId |-> "w3"]

ForgedPayload == [k \in {"data", META_KEY} |->
                    IF k = META_KEY THEN ForgedMeta ELSE [str |-> "v"]]

Payloads == {PlainPayload, ForgedPayload}

\* The payload of the steps of a single chain.
ChainPayloads == {PlainPayload}

Outputs == {"out1", "out2"}

\* Values the engine may leave in a row's error column.
ErrorValues == {Null, "", "boom"}

(***************************************************************************)
(* Pure helpers of the run-workflow step.                                  *)
(***************************************************************************)
buildError(message) == [success |-> FALSE, error |-> [message |-> message]]

CycleMessage(targetWorkflowId) ==
    "Cycle detected: workflow \"" \o targetWorkflowId \o "\" is already in execution path."

DepthMessage ==
    "Maximum nested workflow depth (" \o ToString(MAX_NESTED_DEPTH) \o ") exceeded."

\* Array.prototype.includes
Includes(seq, x) == \E n \in 1..Len(seq) : seq[n] = x

\* value && typeof value === "object"
IsObject(value) == PRIMITIVE \notin DOMAIN value

\* obj[key], with `missing` for undefined.
Field(obj, key, missing) == IF key \in DOMAIN obj THEN obj[key] ELSE missing

\* extractRunWorkflowMeta accepting an envelope that carries a path only.
extractRunWorkflowMeta_PathOnly(value) ==
    IF ~IsObject(value) \/ META_KEY \notin DOMAIN value
    THEN <<>>
    ELSE LET maybeMeta == value[META_KEY]
         IN  IF ~IsObject(maybeMeta)
             THEN <<>>
             ELSE LET path == SelectSeq(Field(maybeMeta, "path", <<>>),
                                        LAMBDA item : item # NonString)
                  IN  IF Len(path) = 0
                      THEN <<>>
                      ELSE <<[path |-> path,
                              parentExecutionId |-> Field(maybeMeta, "parentExecutionId", 0),
                              parentWorkflowId |-> Field(maybeMeta, "parentWorkflowId", Null)]>>

\* An optional value is a sequence of length 0 (null) or 1.  `value` is a
\* JSON value: an object is a function from its keys to their values.  In the
\* envelope a path that is not an array is a missing path, an execution id
\* that is not a string is 0 and a workflow id that is not a string is Null or
\* NonString.
extractRunWorkflowMeta(value) ==
    IF ~IsObject(value) \/ META_KEY \notin DOMAIN value
    THEN <<>>
    ELSE LET maybeMeta == value[META_KEY]
         IN  IF ~IsObject(maybeMeta)
             THEN <<>>
             ELSE LET rawPath == Field(maybeMeta, "path", <<>>)
                      path == SelectSeq(rawPath, LAMBDA item : item # NonString)
                      parentExecutionId == Field(maybeMeta, "parentExecutionId", 0)
                      parentWorkflowId == Field(maybeMeta, "parentWorkflowId", Null)
                  IN  IF \/ Len(path) = 0
                         \/ parentExecutionId = 0
                         \/ parentWorkflowId \in {Null, NonString}
                      THEN <<>>
                      ELSE <<[path |-> path,
                              parentExecutionId |-> parentExecutionId,
                              parentWorkflowId |-> parentWorkflowId]>>

\* getParentPath ignoring the envelope of the parent record.
getParentPath_AlwaysSingleton(parentExecution) == <<parentExecution.workflowId>>

getParentPath(parentExecution) ==
    LET parentMeta == extractRunWorkflowMeta(parentExecution.input)
    IN  IF parentMeta # <<>> /\ Len(parentMeta[1].path) # 0
        THEN parentMeta[1].path
        ELSE <<parentExecution.workflowId>>

\* buildNextPath without the cycle check.
buildNextPath_NoCycleCheck(parentPath, targetWorkflowId) ==
    LET nextPath == Append(parentPath, targetWorkflowId)
    IN  IF Len(nextPath) > MAX_NESTED_DEPTH
        THEN [success |-> FALSE, error |-> buildError(DepthMessage)]
        ELSE [success |-> TRUE, path |-> nextPath]

\* buildNextPath comparing with >= instead of >.
buildNextPath_OffByOne(parentPath, targetWorkflowId) ==
    IF Includes(parentPath, targetWorkflowId)
    THEN [success |-> FALSE, error |-> buildError(CycleMessage(targetWorkflowId))]
    ELSE LET nextPath == Append(parentPath, targetWorkflowId)
         IN  IF Len(nextPath) >= MAX_NESTED_DEPTH
             THEN [success |-> FALSE, error |-> buildError(DepthMessage)]
             ELSE [success |-> TRUE, path |-> nextPath]

\* buildNextPath without the depth check.
buildNextPath_NoDepthCheck(parentPath, targetWorkflowId) ==
    IF Includes(parentPath, targetWorkflowId)
    THEN [success |-> FALSE, error |-> buildError(CycleMessage(targetWorkflowId))]
    ELSE [success |-> TRUE, path |-> Append(parentPath, targetWorkflowId)]

buildNextPath(parentPath, targetWorkflowId) ==
    IF Includes(parentPath, targetWorkflowId)
    THEN [success |-> FALSE, error |-> buildError(CycleMessage(targetWorkflowId))]
    ELSE LET nextPath == Append(parentPath, targetWorkflowId)
         IN  IF Len(nextPath) > MAX_NESTED_DEPTH
             THEN [success |-> FALSE, error |-> buildError(DepthMessage)]
             ELSE [success |-> TRUE, path |-> nextPath]

\* { __runWorkflowMeta: meta, ...triggerInput }: the caller payload spread last.
childExecutionInput_PayloadWins(triggerInput, meta) ==
    [k \in DOMAIN triggerInput \cup {META_KEY} |->
        IF k \in DOMAIN triggerInput THEN triggerInput[k] ELSE meta]

\* { ...triggerInput, __runWorkflowMeta: meta }
childExecutionInput(triggerInput, meta) ==
    [k \in DOMAIN triggerInput \cup {META_KEY} |->
        IF k = META_KEY THEN meta ELSE triggerInput[k]]

(***************************************************************************)
(* State after construction: one root execution of workflow w1, started by *)
(* its owner, whose engine run is in progress; no controller invocation.   *)
(***************************************************************************)
RootExecution ==
    [workflowId |-> "w1", userId |-> "u1", status |-> "running",
     input |-> PlainPayload, output |-> Null, error |-> Null,
     completedAt |-> FALSE, present |-> TRUE]

NoFrame ==
    [parentWorkflowId |-> Null, userId |-> Null, nextPath |-> <<>>,
     validation |-> Null, childExecutionId |-> 0, errorMessage |-> Null]

NoCall == [targetWorkflowId |-> Null, executionId |-> 0, workflowInput |-> PlainPayload]

NoResult == [pending |-> TRUE]

NoCalls == [insert |-> 0, start |-> 0, update |-> 0]

CtlInit ==
    /\ executions = <<RootExecution>>
    /\ engine = <<"running">>
    /\ pc = [i \in Invocations |-> "idle"]
    /\ call = [i \in Invocations |-> NoCall]
    /\ frame = [i \in Invocations |-> NoFrame]
    /\ result = [i \in Invocations |-> NoResult]
    /\ calls = [i \in Invocations |-> NoCalls]

\* The same state with room for the invocations of one chain.
ChainInit ==
    /\ executions = <<RootExecution>>
    /\ engine = <<"running">>
    /\ pc = [i \in 1..MaxChain |-> "idle"]
    /\ call = [i \in 1..MaxChain |-> NoCall]
    /\ frame = [i \in 1..MaxChain |-> NoFrame]
    /\ result = [i \in 1..MaxChain |-> NoResult]
    /\ calls = [i \in 1..MaxChain |-> NoCalls]

\* No workflow run exists (the state of the runs that use no controller).
CtlIdle ==
    /\ executions = <<>>
    /\ engine = <<>>
    /\ pc = <<>>
    /\ call = <<>>
    /\ frame = <<>>
    /\ result = <<>>
    /\ calls = <<>>

ExecutionIds == 1..Len(executions)

Finished(i) == pc[i] \in {"idle", "done", "thrown"}

\* A step of execution e is in flight: the engine run of e is suspended in it.
StepInFlight(e) == \E i \in DOMAIN pc : ~Finished(i) /\ call[i].executionId = e

Return(i, r) ==
    /\ pc' = [pc EXCEPT ![i] = "done"]
    /\ result' = [result EXCEPT ![i] = r]

(***************************************************************************)
(* runWorkflow                                                             *)
(***************************************************************************)
\* The step is invoked by the engine run of execution `executionId`; it runs
\* up to the first await (the read of the parent row).  Invocations are
\* numbered in the order they are made.
Invoke(i, targetWorkflowId, executionId, workflowInput) ==
    /\ pc[i] = "idle"
    /\ \A j \in 1..(i - 1) : pc[j] # "idle"
    /\ executionId \in ExecutionIds
    /\ engine[executionId] = "running"
    /\ call' = [call EXCEPT ![i] = [targetWorkflowId |-> targetWorkflowId,
                                    executionId |-> executionId,
                                    workflowInput |-> workflowInput]]
    /\ pc' = [pc EXCEPT ![i] = "readParent"]
    /\ UNCHANGED <<executions, engine, frame, result, calls>>
    /\ UNCHANGED <<pathVars, sandboxVars>>

\* An exception outside the try block of executeChildWorkflow leaves runWorkflow.
Throw(i) ==
    /\ pc' = [pc EXCEPT ![i] = "thrown"]
    /\ UNCHANGED result

\* db.query.workflowExecutions.findFirst(parent) settles; buildNextPath.
ReadParent(i, ok) ==
    /\ pc[i] = "readParent"
    /\ LET parentExecution == executions[call[i].executionId]
       IN  IF ~ok
           THEN /\ Throw(i)
                /\ UNCHANGED frame
           ELSE
           IF ~parentExecution.present
           THEN /\ Return(i, buildError("Parent workflow execution not found."))
                /\ UNCHANGED frame
           ELSE LET nextPathResult ==
                        buildNextPath(getParentPath(parentExecution),
                                      call[i].targetWorkflowId)
                IN  IF ~nextPathResult.success
                    THEN /\ Return(i, nextPathResult.error)
                         /\ UNCHANGED frame
                    ELSE /\ frame' = [frame EXCEPT ![i] =
                                [@ EXCEPT !.parentWorkflowId = parentExecution.workflowId,
                                          !.userId = parentExecution.userId,
                                          !.nextPath = nextPathResult.path]]
                         /\ pc' = [pc EXCEPT ![i] = "findWorkflow"]
                         /\ UNCHANGED result
    /\ UNCHANGED <<executions, engine, call, calls>>
    /\ UNCHANGED <<pathVars, sandboxVars>>

(***************************************************************************)
(* getValidatedChildWorkflow                                               *)
(***************************************************************************)
\* findWorkflow without the owner condition.
findWorkflow_AnyOwner(targetWorkflowId, userId) ==
    targetWorkflowId \in StoredWorkflowIds

\* where: and(eq(workflows.id, targetWorkflowId), eq(workflows.userId, userId))
findWorkflow(targetWorkflowId, userId) ==
    /\ targetWorkflowId \in StoredWorkflowIds
    /\ WorkflowOwner[targetWorkflowId] = userId

\* db.query.workflows.findFirst({id = target, userId}) settles.
FindChildWorkflow(i, ok) ==
    /\ pc[i] = "findWorkflow"
    /\ LET found == findWorkflow(call[i].targetWorkflowId, frame[i].userId)
       IN  IF ~ok
           THEN Throw(i)
           ELSE
           IF ~found
           THEN Return(i, buildError("Target workflow not found or not accessible."))
           ELSE /\ pc' = [pc EXCEPT ![i] = "validate"]
                /\ UNCHANGED result
    /\ UNCHANGED <<executions, engine, call, frame, calls>>
    /\ UNCHANGED <<pathVars, sandboxVars>>

\* validateWorkflowIntegrations settles, with {valid} or an exception; when
\* valid, executeChildWorkflow runs up to its first await and issues the insert.
ValidateIntegrations(i, ok, valid) ==
    /\ pc[i] = "validate"
    /\ IF ~ok
       THEN /\ Throw(i)
            /\ UNCHANGED <<calls, frame>>
       ELSE
       IF ~valid
       THEN /\ Return(i, buildError("Target workflow contains invalid integration references."))
            /\ frame' = [frame EXCEPT ![i].validation = "invalid"]
            /\ UNCHANGED calls
       ELSE /\ pc' = [pc EXCEPT ![i] = "insert"]
            /\ frame' = [frame EXCEPT ![i].validation = "valid"]
            /\ calls' = [calls EXCEPT ![i].insert = @ + 1]
            /\ UNCHANGED result
    /\ UNCHANGED <<executions, engine, call>>
    /\ UNCHANGED <<pathVars, sandboxVars>>

(***************************************************************************)
(* executeChildWorkflow                                                    *)
(***************************************************************************)
getErrorMessage(error) == error

RunWorkflowFailed(errorMessage) == buildError("Run Workflow failed: " \o errorMessage)

\* a || b on strings: null and "" are falsy.
OrElse(a, b) == IF a \in {Null, ""} THEN b ELSE a

NewChildExecution(i) ==
    [workflowId |-> call[i].targetWorkflowId,
     userId |-> frame[i].userId,
     status |-> "running",
     input |-> childExecutionInput(call[i].workflowInput,
                  [path |-> frame[i].nextPath,
                   parentExecutionId |-> call[i].executionId,
                   parentWorkflowId |-> frame[i].parentWorkflowId]),
     output |-> Null, error |-> Null, completedAt |-> FALSE, present |-> TRUE]

\* The insert made idempotent on the inserted values: a row that already
\* holds them is reused instead of a new one being created.
InsertChildExecution_Deduplicated(i, ok) ==
    /\ pc[i] = "insert"
    /\ IF ok
       THEN LET same == {e \in ExecutionIds :
                            /\ executions[e].present
                            /\ executions[e].workflowId = NewChildExecution(i).workflowId
                            /\ executions[e].input = NewChildExecution(i).input}
            IN  /\ IF same = {}
                   THEN /\ executions' = Append(executions, NewChildExecution(i))
                        /\ engine' = Append(engine, "none")
                        /\ frame' = [frame EXCEPT
                                        ![i].childExecutionId = Len(executions) + 1]
                   ELSE /\ UNCHANGED <<executions, engine>>
                        /\ frame' = [frame EXCEPT
                                        ![i].childExecutionId = CHOOSE e \in same : TRUE]
                /\ calls' = [calls EXCEPT ![i].start = @ + 1]
                /\ pc' = [pc EXCEPT ![i] = "start"]
                /\ UNCHANGED result
       ELSE /\ Return(i, RunWorkflowFailed(getErrorMessage("insert failed")))
            /\ UNCHANGED <<executions, engine, frame, calls>>
    /\ UNCHANGED call
    /\ UNCHANGED <<pathVars, sandboxVars>>

\* The insert settles.  Fulfilled: the row exists, childExecutionId is set and
\* start(executeWorkflow, ...) is issued.  Rejected: the catch block runs with
\* childExecutionId undefined and returns at once.
InsertChildExecution(i, ok) ==
    /\ pc[i] = "insert"
    /\ IF ok
       THEN /\ executions' = Append(executions, NewChildExecution(i))
            /\ engine' = Append(engine, "none")
            /\ frame' = [frame EXCEPT ![i].childExecutionId = Len(executions) + 1]
            /\ calls' = [calls EXCEPT ![i].start = @ + 1]
            /\ pc' = [pc EXCEPT ![i] = "start"]
            /\ UNCHANGED result
       ELSE /\ Return(i, RunWorkflowFailed(getErrorMessage("insert failed")))
            /\ UNCHANGED <<executions, engine, frame, calls>>
    /\ UNCHANGED call
    /\ UNCHANGED <<pathVars, sandboxVars>>

\* The catch block up to its await: the update of the known child row is issued.
EnterCatch(i, error) ==
    /\ frame' = [frame EXCEPT ![i].errorMessage = getErrorMessage(error)]
    /\ calls' = [calls EXCEPT ![i].update = @ + 1]
    /\ pc' = [pc EXCEPT ![i] = "catch"]
    /\ UNCHANGED result

\* start(...) settles.  Fulfilled: the child run exists and the controller
\* suspends on childRun.returnValue.
StartChildRun(i, ok) ==
    /\ pc[i] = "start"
    /\ IF ok
       THEN /\ engine' = [engine EXCEPT ![frame[i].childExecutionId] = "running"]
            /\ pc' = [pc EXCEPT ![i] = "await"]
            /\ UNCHANGED <<frame, calls, result>>
       ELSE /\ EnterCatch(i, "start failed")
            /\ UNCHANGED engine
    /\ UNCHANGED <<executions, call>>
    /\ UNCHANGED <<pathVars, sandboxVars>>

\* The completion signal not awaited: the controller goes on at once.
returnValueFulfilled_NotAwaited(e) == engine[e] \in {"running", "written", "resolved"}

\* await childRun.returnValue
returnValueFulfilled(e) == engine[e] = "resolved"

returnValueRejected(e) == engine[e] = "rejected"

\* ChildResult returning the caller payload's data instead of the stored output.
ChildResult_StaleOutput(i, completedChildExecution) ==
    IF completedChildExecution = <<>>
    THEN buildError("Child workflow execution record was not found.")
    ELSE IF completedChildExecution[1].status # "success"
         THEN buildError(OrElse(completedChildExecution[1].error,
                                "Child workflow execution failed."))
         ELSE [success |-> TRUE,
               data |-> [workflowId |-> call[i].targetWorkflowId,
                         executionId |-> frame[i].childExecutionId,
                         output |-> "out1"]]

\* ChildResult ignoring the recorded error message.
ChildResult_AlwaysFallback(i, completedChildExecution) ==
    IF completedChildExecution = <<>>
    THEN buildError("Child workflow execution record was not found.")
    ELSE IF completedChildExecution[1].status # "success"
         THEN buildError("Child workflow execution failed.")
         ELSE [success |-> TRUE,
               data |-> [workflowId |-> call[i].targetWorkflowId,
                         executionId |-> frame[i].childExecutionId,
                         output |-> completedChildExecution[1].output]]

\* What the controller returns for the row it re-read (an optional row).
ChildResult(i, completedChildExecution) ==
    IF completedChildExecution = <<>>
    THEN buildError("Child workflow execution record was not found.")
    ELSE IF completedChildExecution[1].status # "success"
         THEN buildError(OrElse(completedChildExecution[1].error,
                                "Child workflow execution failed."))
         ELSE [success |-> TRUE,
               data |-> [workflowId |-> call[i].targetWorkflowId,
                         executionId |-> frame[i].childExecutionId,
                         output |-> completedChildExecution[1].output]]

findExecution(id) == IF executions[id].present THEN <<executions[id]>> ELSE <<>>

\* The re-read treating a vanished row as an exception: the catch block runs
\* and issues its update.
RereadChildExecution_ThrowsWhenAbsent(i, ok) ==
    /\ pc[i] = "await"
    /\ returnValueFulfilled(frame[i].childExecutionId)
    /\ IF ok /\ findExecution(frame[i].childExecutionId) # <<>>
       THEN /\ Return(i, ChildResult(i, findExecution(frame[i].childExecutionId)))
            /\ UNCHANGED <<frame, calls>>
       ELSE EnterCatch(i, IF ok THEN "Child workflow execution record was not found."
                                ELSE "read failed")
    /\ UNCHANGED <<executions, engine, call>>
    /\ UNCHANGED <<pathVars, sandboxVars>>

\* returnValue fulfilled and the re-read of the child row settles.
RereadChildExecution(i, ok) ==
    /\ pc[i] = "await"
    /\ returnValueFulfilled(frame[i].childExecutionId)
    /\ IF ok
       THEN /\ Return(i, ChildResult(i, findExecution(frame[i].childExecutionId)))
            /\ UNCHANGED <<frame, calls>>
       ELSE EnterCatch(i, "read failed")
    /\ UNCHANGED <<executions, engine, call>>
    /\ UNCHANGED <<pathVars, sandboxVars>>

\* returnValue rejected: the catch block runs.
ChildRunRejected(i) ==
    /\ pc[i] = "await"
    /\ returnValueRejected(frame[i].childExecutionId)
    /\ EnterCatch(i, "run failed")
    /\ UNCHANGED <<executions, engine, call>>
    /\ UNCHANGED <<pathVars, sandboxVars>>

\* The update of the catch block setting the status only.
markExecutionFailed_StatusOnly(rows, id, errorMessage) ==
    IF rows[id].present
    THEN [rows EXCEPT ![id].status = "error"]
    ELSE rows

\* db.update(...).set({status: "error", error, completedAt}).where(id = child)
markExecutionFailed(rows, id, errorMessage) ==
    IF rows[id].present
    THEN [rows EXCEPT ![id].status = "error",
                      ![id].error = errorMessage,
                      ![id].completedAt = TRUE]
    ELSE rows

\* The catch block whose update selects the rows of the target workflow
\* instead of the row with the id of the created record.
CatchUpdate_ByWorkflow(i, ok) ==
    /\ pc[i] = "catch"
    /\ IF ok
       THEN /\ executions' =
                   [e \in DOMAIN executions |->
                       IF executions[e].workflowId = call[i].targetWorkflowId
                       THEN markExecutionFailed(executions, e, frame[i].errorMessage)[e]
                       ELSE executions[e]]
            /\ Return(i, RunWorkflowFailed(frame[i].errorMessage))
       ELSE /\ pc' = [pc EXCEPT ![i] = "thrown"]
            /\ UNCHANGED <<executions, result>>
    /\ UNCHANGED <<engine, call, frame, calls>>
    /\ UNCHANGED <<pathVars, sandboxVars>>

\* The update of the catch block settles.  Fulfilled: the failure is
\* returned.  Rejected: the exception leaves executeChildWorkflow.
CatchUpdate(i, ok) ==
    /\ pc[i] = "catch"
    /\ IF ok
       THEN /\ executions' = markExecutionFailed(executions, frame[i].childExecutionId,
                                                 frame[i].errorMessage)
            /\ Return(i, RunWorkflowFailed(frame[i].errorMessage))
       ELSE /\ pc' = [pc EXCEPT ![i] = "thrown"]
            /\ UNCHANGED <<executions, result>>
    /\ UNCHANGED <<engine, call, frame, calls>>
    /\ UNCHANGED <<pathVars, sandboxVars>>

(***************************************************************************)
(* Collaborators: the execution engine and the rest of the application.    *)
(***************************************************************************)
\* The child run records its own outcome in its row (a no-op if the row is gone).
EngineWriteStatus(e, status, output, error) ==
    /\ e \in ExecutionIds
    /\ engine[e] = "running"
    /\ ~StepInFlight(e)
    /\ engine' = [engine EXCEPT ![e] = "written"]
    /\ executions' = IF executions[e].present
                     THEN [executions EXCEPT ![e].status = status,
                                             ![e].output = output,
                                             ![e].error = error,
                                             ![e].completedAt = TRUE]
                     ELSE executions
    /\ UNCHANGED <<pc, call, frame, result, calls>>
    /\ UNCHANGED <<pathVars, sandboxVars>>

\* The child run's returnValue settles, with or without a recorded outcome.
EngineSettle(e, how) ==
    /\ e \in ExecutionIds \ {1}
    /\ engine[e] \in {"running", "written"}
    /\ ~StepInFlight(e)
    /\ engine' = [engine EXCEPT ![e] = how]
    /\ UNCHANGED <<executions, pc, call, frame, result, calls>>
    /\ UNCHANGED <<pathVars, sandboxVars>>

\* What is left of a deleted row: its id stays taken, its columns are gone.
DeletedExecution(row) ==
    [row EXCEPT !.present = FALSE, !.status = Null, !.output = Null,
                !.error = Null, !.completedAt = FALSE]

\* Execution rows can be deleted by the application at any time.  A deletion
\* commutes with every step that does not touch the row, so it is taken only
\* while an invocation is suspended on an operation on that row.
DeleteExecution(e) ==
    /\ e \in ExecutionIds
    /\ executions[e].present
    /\ \E i \in DOMAIN pc :
          \/ pc[i] = "readParent" /\ call[i].executionId = e
          \/ pc[i] \in {"await", "catch"} /\ frame[i].childExecutionId = e
    /\ executions' = [executions EXCEPT ![e] = DeletedExecution(@)]
    /\ UNCHANGED <<engine, pc, call, frame, result, calls>>
    /\ UNCHANGED <<pathVars, sandboxVars>>

(***************************************************************************)
(* The execution path tracker on its own: buildNextPath applied to a       *)
(* parent path of distinct workflow ids and a target.                      *)
(***************************************************************************)
ProbeId(n) == "p" \o ToString(n)

ProbePath(n) == [k \in 1..n |-> ProbeId(k)]

NoProbe == [parentPath |-> <<>>, targetWorkflowId |-> Null, applied |-> FALSE,
            result |-> NoResult]

\* No token has been handed to resolveVercelSandboxCredentials.
NoResolution == [token |-> <<>>, applied |-> FALSE, parsed |-> <<>>, resolved |-> <<>>]

NoClamp == [request |-> Null, applied |-> FALSE, ceiling |-> 0]

NoRecovery == [workflowId |-> Null, input |-> Primitive("null"), applied |-> FALSE,
               path |-> <<>>, selfTarget |-> NoResult]

NoOutput == [text |-> "", steps |-> 0, applied |-> FALSE, data |-> <<>>]

\* No script has been started and no resolver or template applied.
NoRunner == [pc |-> "none"]

NoLookup == [applied |-> FALSE]

NoExport == [applied |-> FALSE]

ScriptIdle ==
    /\ runner = NoRunner
    /\ lookup = NoLookup
    /\ exported = NoExport

PathIdle ==
    /\ ScriptIdle
    /\ probe = NoProbe
    /\ resolution = NoResolution
    /\ recovery = NoRecovery
    /\ clamp = NoClamp
    /\ agentOutput = NoOutput

PathInit ==
    \E n \in 1..MaxProbeLen, t \in 1..(MaxProbeLen + 1) :
        /\ probe = [parentPath |-> ProbePath(n), targetWorkflowId |-> ProbeId(t),
                    applied |-> FALSE, result |-> NoResult]
        /\ resolution = NoResolution
        /\ recovery = NoRecovery
        /\ clamp = NoClamp
        /\ agentOutput = NoOutput
        /\ ScriptIdle

\* buildNextPath building the next path with parentPath.push(targetWorkflowId):
\* the array it was given grows with it.
TrackPath_PushInPlace ==
    /\ ~probe.applied
    /\ probe' = [probe EXCEPT
                    !.applied = TRUE,
                    !.parentPath = IF Includes(probe.parentPath, probe.targetWorkflowId)
                                   THEN @ ELSE Append(@, probe.targetWorkflowId),
                    !.result = buildNextPath(probe.parentPath, probe.targetWorkflowId)]
    /\ UNCHANGED <<resolution, recovery, clamp, agentOutput, scriptVars, ctlVars, sandboxVars>>

\* buildNextPath(parentPath, targetWorkflowId) is called; probe.parentPath is
\* the caller's array after the call.
TrackPath ==
    /\ ~probe.applied
    /\ probe' = [probe EXCEPT
                    !.applied = TRUE,
                    !.result = buildNextPath(probe.parentPath, probe.targetWorkflowId)]
    /\ UNCHANGED <<resolution, recovery, clamp, agentOutput, scriptVars, ctlVars, sandboxVars>>

(***************************************************************************)
(* Recovery of the parent path on its own: getParentPath applied to a      *)
(* parent record whose input is any JSON value, followed by buildNextPath  *)
(* for the record's own workflow as target.                                *)
(***************************************************************************)
\* Arrays of at most MaxEnvelopePath entries, strings or not.
RawPaths ==
    UNION {[1..n -> {"w1", "w2", NonString}] : n \in 0..MaxEnvelopePath}

\* An object with the given keys out of path, parentExecutionId and
\* parentWorkflowId.
EnvelopeObject(keys, path, parentExecutionId, parentWorkflowId) ==
    [k \in keys |-> IF k = "path" THEN path
                    ELSE IF k = "parentExecutionId" THEN parentExecutionId
                    ELSE parentWorkflowId]

\* What a record's input can hold under the envelope key.
Envelopes ==
    {Primitive("null"), Primitive("string")} \cup
    {EnvelopeObject(keys, path, parentExecutionId, parentWorkflowId) :
        keys \in {{"path", "parentExecutionId", "parentWorkflowId"},
                  {"parentExecutionId", "parentWorkflowId"},
                  {"path", "parentWorkflowId"},
                  {"path", "parentExecutionId"}},
        path \in RawPaths,
        parentExecutionId \in {0, 1},
        parentWorkflowId \in {NonString, "w1"}}

ParentInputs ==
    {Primitive("null"), Primitive("string"), PlainPayload} \cup
    {[k \in {"data", META_KEY} |-> IF k = META_KEY THEN envelope ELSE [str |-> "v"]] :
        envelope \in Envelopes}

RecoveryInit ==
    \E workflowId \in {"w1", "w2"}, input \in ParentInputs :
        recovery = [NoRecovery EXCEPT !.workflowId = workflowId, !.input = input]

\* buildNextPath(getParentPath(parentExecution), targetWorkflowId) of
\* runWorkflow, for a step that targets the workflow of the record itself.
RecoverParentPath ==
    /\ ~recovery.applied
    /\ LET parentExecution == [workflowId |-> recovery.workflowId, input |-> recovery.input]
       IN  recovery' = [recovery EXCEPT
               !.applied = TRUE,
               !.path = getParentPath(parentExecution),
               !.selfTarget = buildNextPath(getParentPath(parentExecution),
                                            recovery.workflowId)]
    /\ UNCHANGED <<probe, resolution, clamp, agentOutput, scriptVars, ctlVars, sandboxVars>>

(***************************************************************************)
(* Sandbox session lifecycle of the agent step (run-agent.ts) and of the   *)
(* bash step (run-command.ts).                                             *)
(***************************************************************************)
\* v.trim() === "" for the strings of the model.
IsBlank(v) == v \in {"", " "}

\* v?.trim(): undefined stays undefined, a blank string becomes "".
TrimString(v) == IF v = Null THEN Null ELSE IF IsBlank(v) THEN "" ELSE v

\* A token is kept as what the code reads from it: whether it is defined,
\* whether trim() leaves nothing, and its segments between the dots.  A segment
\* is what JSON.parse(decodeBase64Url(segment)) makes of it.
OpaqueSegment == [json |-> "invalid"]

ClaimsSegment(owner_id, project_id) ==
    [json |-> "object", owner_id |-> owner_id, project_id |-> project_id]

NoToken == [defined |-> FALSE, blank |-> TRUE, parts |-> <<>>]

BlankToken == [defined |-> TRUE, blank |-> TRUE, parts |-> <<>>]

OidcToken == [defined |-> TRUE, blank |-> FALSE,
              parts |-> <<OpaqueSegment, ClaimsSegment("team_oidc", "prj_oidc"),
                          OpaqueSegment>>]

AccessToken == [defined |-> TRUE, blank |-> FALSE, parts |-> <<OpaqueSegment>>]

Tokens == {NoToken, BlankToken, OidcToken, AccessToken}

\* !token for token = input.token?.trim()
TokenFalsy(token) == ~token.defined \/ token.blank

SandboxTypeValues == {Null, "just-bash", "vercel", "docker"}

EnvValues == {Null, " ", "id_env"}

\* getSandboxType of the agent step with the default of the bash step.
agentGetSandboxType_DefaultLocal(sandboxType) ==
    IF sandboxType = "vercel" THEN "vercel" ELSE "just-bash"

\* run-agent.ts getSandboxType
agentGetSandboxType(sandboxType) ==
    IF sandboxType = "just-bash" THEN "just-bash" ELSE "vercel"

\* run-command.ts getSandboxType
bashGetSandboxType(rawSandboxType) ==
    IF rawSandboxType = "vercel" THEN "vercel" ELSE "just-bash"

getSandboxType(kind, sandboxType) ==
    IF kind = "agent" THEN agentGetSandboxType(sandboxType)
    ELSE bashGetSandboxType(sandboxType)

\* An optional value: <<>> is null.
parseOidcTokenCredentials(token) ==
    IF Len(token.parts) < 2
    THEN <<>>
    ELSE LET payload == token.parts[2]
         IN  IF payload.json # "object"
             THEN <<>>
             ELSE IF \/ payload.owner_id \in {Null, NonString}
                     \/ payload.project_id \in {Null, NonString}
                     \/ IsBlank(payload.owner_id)
                     \/ IsBlank(payload.project_id)
                  THEN <<>>
                  ELSE <<[token |-> token,
                          teamId |-> payload.owner_id,
                          projectId |-> payload.project_id]>>

\* resolveVercelSandboxCredentials accepting the environment when either
\* identifier is set.
resolveVercelSandboxCredentials_EitherEnv(token, env) ==
    LET parsed == parseOidcTokenCredentials(token)
        teamId == TrimString(env.VERCEL_TEAM_ID)
        projectId == TrimString(env.VERCEL_PROJECT_ID)
        truthy(v) == v \notin {Null, ""}
    IN  IF parsed # <<>>
        THEN [ok |-> TRUE, credentials |-> parsed[1]]
        ELSE IF truthy(teamId) \/ truthy(projectId)
        THEN [ok |-> TRUE,
              credentials |-> [token |-> token, teamId |-> teamId, projectId |-> projectId]]
        ELSE [ok |-> FALSE, message |->
                "Invalid Vercel Sandbox token configuration. Provide an OIDC token or set VERCEL_TEAM_ID and VERCEL_PROJECT_ID in server environment variables."]

\* Returns the credentials, or the message of the Error it throws.
resolveVercelSandboxCredentials(token, env) ==
    LET parsed == parseOidcTokenCredentials(token)
        teamId == TrimString(env.VERCEL_TEAM_ID)
        projectId == TrimString(env.VERCEL_PROJECT_ID)
        truthy(v) == v \notin {Null, ""}
    IN  IF parsed # <<>>
        THEN [ok |-> TRUE, credentials |-> parsed[1]]
        ELSE IF truthy(teamId) /\ truthy(projectId)
        THEN [ok |-> TRUE,
              credentials |-> [token |-> token, teamId |-> teamId, projectId |-> projectId]]
        ELSE IF truthy(teamId) \/ truthy(projectId)
        THEN [ok |-> FALSE, message |->
                "Both VERCEL_TEAM_ID and VERCEL_PROJECT_ID must be set together when using a non-OIDC Vercel token."]
        ELSE [ok |-> FALSE, message |->
                "Invalid Vercel Sandbox token configuration. Provide an OIDC token or set VERCEL_TEAM_ID and VERCEL_PROJECT_ID in server environment variables."]

\* The second segments a token can carry: not base64 of a JSON object, or
\* the claims of a JSON object with owner_id and project_id absent, not a
\* string, blank, or a name.
PayloadSegments ==
    {OpaqueSegment} \cup
    {ClaimsSegment(o, p) : o \in {Null, NonString, " ", "team_oidc"},
                           p \in {Null, NonString, "", "prj_oidc"}}

\* Non-blank tokens of 1 to MaxSegments dot-separated segments.
SegmentedTokens ==
    {[defined |-> TRUE, blank |-> FALSE, parts |-> <<OpaqueSegment>>]} \cup
    {[defined |-> TRUE, blank |-> FALSE,
      parts |-> [k \in 1..n |-> IF k = 2 THEN payload ELSE OpaqueSegment]] :
        n \in 2..MaxSegments, payload \in PayloadSegments}

ResolutionInit ==
    /\ processEnv \in [VERCEL_TEAM_ID : EnvValues, VERCEL_PROJECT_ID : EnvValues]
    /\ \E token \in SegmentedTokens :
           resolution = [NoResolution EXCEPT !.token = token]

\* resolveVercelSandboxCredentials(token) is called.
ResolveCredentials ==
    /\ ~resolution.applied
    /\ resolution' = [resolution EXCEPT
            !.applied = TRUE,
            !.parsed = parseOidcTokenCredentials(resolution.token),
            !.resolved = resolveVercelSandboxCredentials(resolution.token, processEnv)]
    /\ UNCHANGED <<probe, recovery, clamp, agentOutput, scriptVars, processEnv, sandboxes, stepPc, stepInput, stepLocal,
                   stepResult, stepCalls>>
    /\ UNCHANGED ctlVars

\* createSandboxTools without the token check.
agentResolveToken_Unchecked(input) ==
    [ok |-> TRUE, token |-> input.vercelSandboxToken]

\* run-agent.ts: input.vercelSandboxToken?.trim(), required.
agentResolveToken(input) ==
    IF TokenFalsy(input.vercelSandboxToken)
    THEN [ok |-> FALSE, message |->
            "Vercel Sandbox token is required when Sandbox is set to Vercel Sandbox."]
    ELSE [ok |-> TRUE, token |-> input.vercelSandboxToken]

\* run-command.ts resolveOidcToken(input.oidcToken, input.vercelSandboxToken)
resolveOidcToken(inputOidcToken, legacySandboxToken) ==
    IF ~TokenFalsy(inputOidcToken)
    THEN [ok |-> TRUE, token |-> inputOidcToken]
    ELSE IF ~TokenFalsy(legacySandboxToken)
    THEN [ok |-> TRUE, token |-> legacySandboxToken]
    ELSE [ok |-> FALSE, message |->
            "OIDC token is required when Sandbox is set to Vercel Sandbox."]

resolveToken(input) ==
    IF input.kind = "agent" THEN agentResolveToken(input)
    ELSE resolveOidcToken(input.oidcToken, input.vercelSandboxToken)

\* The integers a request of the model can start with.
IntegerRange == (0 - MaxRequest)..MaxRequest

\* What can precede and follow the numeral at the start of a request:
\* parseInt skips leading whitespace and stops at the first character that is
\* not a digit.
NumeralLeads == {"", " "}

NumeralTails == {"", ".9", "px"}

\* Number.parseInt(str, 10): the integer whose decimal numeral starts str;
\* <<>> is NaN (str starts with no numeral).
parseInt(str) ==
    LET starts == {n \in IntegerRange :
                      \E lead \in NumeralLeads, tail \in NumeralTails :
                          str = lead \o ToString(n) \o tail}
    IN  IF starts = {} THEN <<>> ELSE <<CHOOSE n \in starts : TRUE>>

Min(a, b) == IF a < b THEN a ELSE b

Max(a, b) == IF a > b THEN a ELSE b

\* Math.min(Math.max(Number.parseInt(input.maxSteps || "10", 10) || 10, 1), 50)
effectiveMaxSteps(maxSteps) ==
    LET parsed == parseInt(IF maxSteps \in {Null, ""} THEN "10" ELSE maxSteps)
        requested == IF parsed = <<>> \/ parsed = <<0>> THEN 10 ELSE parsed[1]
    IN  Min(Max(requested, 1), 50)

\* The maxSteps requests of the model: absent, empty, starting with no
\* numeral, or starting with the numeral of an integer.
NonNumericRequests == {"abc", "px5", " "}

MaxStepsRequests ==
    {Null, ""} \cup NonNumericRequests \cup
    {lead \o ToString(n) \o tail :
        n \in IntegerRange, lead \in NumeralLeads, tail \in NumeralTails}

ClampInit == \E request \in MaxStepsRequests : clamp = [NoClamp EXCEPT !.request = request]

\* stepHandler evaluates the maxSteps expression on input.maxSteps.
ClampMaxSteps ==
    /\ ~clamp.applied
    /\ clamp' = [clamp EXCEPT !.applied = TRUE,
                              !.ceiling = effectiveMaxSteps(clamp.request)]
    /\ UNCHANGED <<probe, resolution, recovery, agentOutput, scriptVars, ctlVars, sandboxVars>>

\* The final texts of the model are built from whitespace, an opening
\* bracket, a body and a closing bracket, each of which may be missing.
Whitespace == {"", " ", "\n"}

Opens == {"", "{", "["}

Closes == {"", "}", "]"}

\* The bodies that make "{" body "}" a JSON object, "[" body "]" a JSON array.
ObjectBodies == {"", "\"a\":1"}

ArrayBodies == {"", "1"}

Bodies == ObjectBodies \cup ArrayBodies \cup {"done", "oops"}

\* Texts with no whitespace at either end.
TrimmedTexts == {o \o b \o c : o \in Opens, b \in Bodies, c \in Closes}

FinalTexts == {l \o t \o r : l \in Whitespace, t \in TrimmedTexts, r \in Whitespace}

\* The final texts the agent runs of the model return.
AgentTexts == {"done", " {} ", "{oops}", "[1]"}

\* text.trim()
TrimText(text) ==
    CHOOSE t \in TrimmedTexts : \E l \in Whitespace, r \in Whitespace : text = l \o t \o r

\* (trimmed.startsWith("{") && trimmed.endsWith("}")) ||
\* (trimmed.startsWith("[") && trimmed.endsWith("]"))
LooksLikeJson(trimmed) ==
    \E b \in Bodies : trimmed = "{" \o b \o "}" \/ trimmed = "[" \o b \o "]"

\* JSON.parse: <<>> when it throws.
JSONParse(trimmed) ==
    IF \E b \in ObjectBodies : trimmed = "{" \o b \o "}"
    THEN <<[json |-> "object", source |-> trimmed]>>
    ELSE IF \E b \in ArrayBodies : trimmed = "[" \o b \o "]"
    THEN <<[json |-> "array", source |-> trimmed]>>
    ELSE IF trimmed = "1"
    THEN <<[json |-> "number", source |-> trimmed]>>
    ELSE <<>>

\* parseAgentOutput handing every text to JSON.parse, bracketed or not.
parseAgentOutput_ParseAnything(text, stepCount) ==
    LET trimmed == TrimText(text)
    IN  IF JSONParse(trimmed) # <<>>
        THEN JSONParse(trimmed)[1]
        ELSE [text |-> trimmed, stepsUsed |-> stepCount]

parseAgentOutput(text, stepCount) ==
    LET trimmed == TrimText(text)
    IN  IF LooksLikeJson(trimmed) /\ JSONParse(trimmed) # <<>>
        THEN JSONParse(trimmed)[1]
        ELSE [text |-> trimmed, stepsUsed |-> stepCount]

OutputInit ==
    \E text \in FinalTexts, n \in 1..MaxStepsUsed :
        agentOutput = [NoOutput EXCEPT !.text = text, !.steps = n]

\* parseAgentOutput(result.text, result.steps) is called.
ParseOutput ==
    /\ ~agentOutput.applied
    /\ agentOutput' = [agentOutput EXCEPT
            !.applied = TRUE,
            !.data = parseAgentOutput(agentOutput.text, agentOutput.steps)]
    /\ UNCHANGED <<probe, resolution, recovery, clamp, scriptVars, ctlVars, sandboxVars>>

\* typeof the error slot of a failure result, as the result types declare it
\* and as stepHandler builds it: RunAgentResult has `error: string`,
\* RunBashResult has `error: RunBashError`, an object with a message.
typeofError(kind) == IF kind = "agent" THEN "string" ELSE "object"

\* The validation of the agent step without the prompt check.
inputFailure_PromptUnchecked(input) ==
    IF input.kind = "agent"
    THEN IF ~input.apiKey
         THEN <<[success |-> FALSE, error |->
                   "AI_GATEWAY_API_KEY is not configured. Please add it in Project Integrations."]>>
         ELSE <<>>
    ELSE IF input.command = Null \/ IsBlank(input.command)
         THEN <<[success |-> FALSE, error |-> [message |-> "Bash command is required."]]>>
         ELSE <<>>

\* The validation at the top of stepHandler: the failure it returns, if any.
inputFailure(input) ==
    IF input.kind = "agent"
    THEN IF ~input.apiKey
         THEN <<[success |-> FALSE, error |->
                   "AI_GATEWAY_API_KEY is not configured. Please add it in Project Integrations."]>>
         ELSE IF input.agentPrompt = Null \/ IsBlank(input.agentPrompt)
         THEN <<[success |-> FALSE, error |-> "Agent prompt is required"]>>
         ELSE <<>>
    ELSE IF input.command = Null \/ IsBlank(input.command)
         THEN <<[success |-> FALSE, error |-> [message |-> "Bash command is required."]]>>
         ELSE <<>>

\* The result built by the catch block of stepHandler.
caughtFailure(input, sandboxType, message) ==
    IF input.kind = "agent"
    THEN [success |-> FALSE, error |-> "Agent execution failed: " \o message]
    ELSE [success |-> FALSE,
          error |-> [message |-> "Failed to execute command: " \o message,
                     command |-> TrimString(input.command),
                     sandboxType |-> sandboxType]]

NoCredentials == [token |-> NoToken, teamId |-> Null, projectId |-> Null]

NoStepInput ==
    [kind |-> "agent", apiKey |-> FALSE, agentPrompt |-> Null, maxSteps |-> Null,
     sandboxType |-> Null, vercelSandboxToken |-> NoToken, oidcToken |-> NoToken,
     command |-> Null]

\* cleanup: "default" is the no-op stepHandler starts with, "local" and
\* "remote" are the closures returned by the session factory.
NoStepLocal ==
    [sandboxType |-> Null, maxSteps |-> 0, credentials |-> NoCredentials,
     sandbox |-> 0, probeExitCode |-> 0, destination |-> Null,
     cleanup |-> "default", primary |-> NoResult]

NoStepCalls == [create |-> 0, probe |-> 0, run |-> 0, cleanup |-> 0, stop |-> 0]

\* No step has been invoked (the state of the runs that use no sandbox).
SandboxIdle ==
    /\ processEnv = <<>>
    /\ sandboxes = <<>>
    /\ stepPc = <<>>
    /\ stepInput = <<>>
    /\ stepLocal = <<>>
    /\ stepResult = <<>>
    /\ stepCalls = <<>>

SandboxInit ==
    /\ processEnv \in [VERCEL_TEAM_ID : EnvValues, VERCEL_PROJECT_ID : EnvValues]
    /\ sandboxes = <<>>
    /\ stepPc = [s \in Steps |-> "idle"]
    /\ stepInput = [s \in Steps |-> NoStepInput]
    /\ stepLocal = [s \in Steps |-> NoStepLocal]
    /\ stepResult = [s \in Steps |-> NoResult]
    /\ stepCalls = [s \in Steps |-> NoStepCalls]

AgentInputs ==
    [kind : {"agent"}, apiKey : BOOLEAN, agentPrompt : {Null, " ", "list files"},
     maxSteps : {Null, "3"}, sandboxType : SandboxTypeValues,
     vercelSandboxToken : Tokens, oidcToken : {NoToken}, command : {Null}]

BashInputs ==
    [kind : {"bash"}, apiKey : {FALSE}, agentPrompt : {Null}, maxSteps : {Null},
     sandboxType : SandboxTypeValues, vercelSandboxToken : Tokens,
     oidcToken : Tokens, command : {Null, " ", "ls"}]

StepInputs == AgentInputs \cup BashInputs

\* Inputs of the steps that follow, in the same workflow run, a step whose
\* destination probe failed.
LaterStepInputs ==
    {input \in StepInputs :
        /\ input.sandboxType = "vercel"
        /\ input.vercelSandboxToken = OidcToken
        /\ input.oidcToken = NoToken
        /\ input.maxSteps = Null
        /\ input.apiKey = (input.kind = "agent")
        /\ input.agentPrompt \in {Null, "list files"}
        /\ input.command \in {Null, "ls"}}

\* The cleanup called at the end of the try block instead of in finally:
\* it runs after a result was returned normally, not after an exception.
Exit_CleanupOnlyOnReturn(s, local, primary) ==
    /\ stepLocal' = [stepLocal EXCEPT ![s] = [local EXCEPT !.primary = primary]]
    /\ stepCalls' = IF primary.success
                    THEN [stepCalls EXCEPT
                            ![s].cleanup = @ + 1,
                            ![s].stop = IF local.cleanup = "remote" THEN @ + 1 ELSE @]
                    ELSE stepCalls
    /\ stepPc' = [stepPc EXCEPT ![s] = "cleanup"]

\* The primary outcome is decided (a return inside try, or the catch block);
\* the finally block runs and invokes the cleanup bound at that moment.
Exit(s, local, primary) ==
    /\ stepLocal' = [stepLocal EXCEPT ![s] = [local EXCEPT !.primary = primary]]
    /\ stepCalls' = [stepCalls EXCEPT
                        ![s].cleanup = @ + 1,
                        ![s].stop = IF local.cleanup = "remote" THEN @ + 1 ELSE @]
    /\ stepPc' = [stepPc EXCEPT ![s] = "cleanup"]

\* An exception inside try: the catch block builds the failure.
Catch(s, local, message) ==
    Exit(s, local, caughtFailure(stepInput[s], local.sandboxType, message))

\* stepHandler up to its first await.
StartStep(s, input) ==
    /\ stepPc[s] = "idle"
    /\ stepInput' = [stepInput EXCEPT ![s] = input]
    /\ LET sandboxType == getSandboxType(input.kind, input.sandboxType)
           local == [NoStepLocal EXCEPT !.sandboxType = sandboxType,
                                        !.maxSteps = effectiveMaxSteps(input.maxSteps)]
           token == resolveToken(input)
           resolved == resolveVercelSandboxCredentials(token.token, processEnv)
           failed(message) ==
               /\ Exit(s, local, caughtFailure(input, sandboxType, message))
               /\ UNCHANGED stepResult
       IN  IF inputFailure(input) # <<>>
           THEN /\ stepPc' = [stepPc EXCEPT ![s] = "done"]
                /\ stepResult' = [stepResult EXCEPT ![s] = inputFailure(input)[1]]
                /\ UNCHANGED <<stepLocal, stepCalls>>
           ELSE IF sandboxType = "just-bash"
           THEN /\ stepPc' = [stepPc EXCEPT ![s] = "localTool"]
                /\ stepLocal' = [stepLocal EXCEPT ![s] = local]
                /\ UNCHANGED <<stepResult, stepCalls>>
           ELSE IF ~token.ok
           THEN failed(token.message)
           ELSE IF ~resolved.ok
           THEN failed(resolved.message)
           ELSE /\ stepPc' = [stepPc EXCEPT ![s] = "create"]
                /\ stepLocal' = [stepLocal EXCEPT ![s] =
                        [local EXCEPT !.credentials = resolved.credentials]]
                /\ stepCalls' = [stepCalls EXCEPT ![s].create = @ + 1]
                /\ UNCHANGED stepResult
    /\ UNCHANGED <<processEnv, sandboxes>>
    /\ UNCHANGED <<ctlVars, pathVars>>

\* The tool loop or the command is started against the acquired session.
StartRun(s, local) ==
    /\ stepLocal' = [stepLocal EXCEPT ![s] = local]
    /\ stepCalls' = [stepCalls EXCEPT ![s].run = @ + 1]
    /\ stepPc' = [stepPc EXCEPT ![s] = "run"]

\* createBashTool() of the local kind settles; fulfilled, the factory returns
\* and stepHandler binds its no-op cleanup.
LocalToolReady(s, ok) ==
    /\ stepPc[s] = "localTool"
    /\ IF ok
       THEN StartRun(s, [stepLocal[s] EXCEPT !.cleanup = "local"])
       ELSE Catch(s, stepLocal[s], "createBashTool failed")
    /\ UNCHANGED <<processEnv, sandboxes, stepInput, stepResult>>
    /\ UNCHANGED <<ctlVars, pathVars>>

\* The factory drawing on a pool of handles: a live handle created with the
\* same credentials is handed out again instead of a new one being created.
SandboxCreated_Pooled(s, ok) ==
    /\ stepPc[s] = "create"
    /\ IF ok
       THEN LET pooled == {k \in DOMAIN sandboxes :
                              /\ sandboxes[k].state = "live"
                              /\ sandboxes[k].credentials = stepLocal[s].credentials}
            IN  /\ IF pooled = {}
                   THEN /\ sandboxes' = Append(sandboxes,
                                [owner |-> s, credentials |-> stepLocal[s].credentials,
                                 state |-> "live"])
                        /\ stepLocal' = [stepLocal EXCEPT
                                            ![s].sandbox = Len(sandboxes) + 1]
                   ELSE /\ UNCHANGED sandboxes
                        /\ stepLocal' = [stepLocal EXCEPT
                                            ![s].sandbox = CHOOSE k \in pooled : TRUE]
                /\ stepCalls' = [stepCalls EXCEPT ![s].probe = @ + 1]
                /\ stepPc' = [stepPc EXCEPT ![s] = "probe"]
       ELSE /\ Catch(s, stepLocal[s], "sandbox create failed")
            /\ UNCHANGED sandboxes
    /\ UNCHANGED <<processEnv, stepInput, stepResult>>
    /\ UNCHANGED <<ctlVars, pathVars>>

\* VercelSandbox.create(credentials) settles; fulfilled, the probe is issued.
SandboxCreated(s, ok) ==
    /\ stepPc[s] = "create"
    /\ IF ok
       THEN /\ sandboxes' = Append(sandboxes,
                    [owner |-> s, credentials |-> stepLocal[s].credentials,
                     state |-> "live"])
            /\ stepLocal' = [stepLocal EXCEPT ![s].sandbox = Len(sandboxes) + 1]
            /\ stepCalls' = [stepCalls EXCEPT ![s].probe = @ + 1]
            /\ stepPc' = [stepPc EXCEPT ![s] = "probe"]
       ELSE /\ Catch(s, stepLocal[s], "sandbox create failed")
            /\ UNCHANGED sandboxes
    /\ UNCHANGED <<processEnv, stepInput, stepResult>>
    /\ UNCHANGED <<ctlVars, pathVars>>

\* resolveVercelSandboxDestination: the message of the Error it throws for a
\* probe result, <<>> if it returns the destination.
probeFailure(exitCode, stdout, stderr) ==
    IF exitCode # 0
    THEN <<"Failed to determine Vercel sandbox working directory"
             \o (IF TrimString(stderr) # "" THEN ": " \o TrimString(stderr) ELSE ".")>>
    ELSE IF TrimString(stdout) = ""
    THEN <<"Failed to determine Vercel sandbox working directory: no destination returned.">>
    ELSE <<>>

\* sandbox.runCommand(probe) settles; on a usable destination the tool set is
\* built around the handle.
ProbeSettled(s, ok, exitCode, stdout, stderr) ==
    /\ stepPc[s] = "probe"
    /\ LET local == [stepLocal[s] EXCEPT !.probeExitCode = exitCode,
                                         !.destination = TrimString(stdout)]
       IN  IF ~ok
           THEN Catch(s, stepLocal[s], "runCommand failed")
           ELSE IF probeFailure(exitCode, stdout, stderr) # <<>>
           THEN Catch(s, local, probeFailure(exitCode, stdout, stderr)[1])
           ELSE /\ stepLocal' = [stepLocal EXCEPT ![s] = local]
                /\ stepPc' = [stepPc EXCEPT ![s] = "wrap"]
                /\ UNCHANGED stepCalls
    /\ UNCHANGED <<processEnv, sandboxes, stepInput, stepResult>>
    /\ UNCHANGED <<ctlVars, pathVars>>

\* createBashTool({sandbox, destination}) settles; fulfilled, the factory
\* returns and stepHandler binds the cleanup that stops the handle.
ToolsWrapped(s, ok) ==
    /\ stepPc[s] = "wrap"
    /\ IF ok
       THEN StartRun(s, [stepLocal[s] EXCEPT !.cleanup = "remote"])
       ELSE Catch(s, stepLocal[s], "createBashTool failed")
    /\ UNCHANGED <<processEnv, sandboxes, stepInput, stepResult>>
    /\ UNCHANGED <<ctlVars, pathVars>>

\* The agent built without stopWhen: the loop stops at the library's default
\* of 20 steps.
StepCounts_DefaultStop(maxSteps) == 1..20

\* result.steps.length of a run of the agent built with
\* stopWhen: stepCountIs(maxSteps): the loop runs at least one step and stops
\* when the model makes no tool call or the number of steps is maxSteps.
StepCounts(maxSteps) == 1..maxSteps

\* agent.generate settles.
AgentRunSettled(s, ok, text, stepCount) ==
    /\ stepPc[s] = "run"
    /\ stepInput[s].kind = "agent"
    /\ stepCount \in StepCounts(stepLocal[s].maxSteps)
    /\ IF ok
       THEN Exit(s, stepLocal[s],
                 [success |-> TRUE, text |-> text, stepsUsed |-> stepCount,
                  data |-> parseAgentOutput(text, stepCount)])
       ELSE Catch(s, stepLocal[s], "model call failed")
    /\ UNCHANGED <<processEnv, sandboxes, stepInput, stepResult>>
    /\ UNCHANGED <<ctlVars, pathVars>>

\* stepHandler without the exit code test: every finished command is a success.
commandResult_IgnoresExitCode(input, sandboxType, exitCode, stdout, stderr) ==
    [success |-> TRUE,
     data |-> [command |-> TrimString(input.command), sandboxType |-> sandboxType,
               stdout |-> stdout, stderr |-> stderr, exitCode |-> exitCode]]

\* The result stepHandler builds from the result of executeCommand.
commandResult(input, sandboxType, exitCode, stdout, stderr) ==
    LET fields == [command |-> TrimString(input.command), sandboxType |-> sandboxType,
                   stdout |-> stdout, stderr |-> stderr, exitCode |-> exitCode]
    IN  IF exitCode # 0
        THEN [success |-> FALSE,
              error |-> [message |-> "Command exited with code " \o ToString(exitCode) \o ".",
                         command |-> fields.command, sandboxType |-> fields.sandboxType,
                         stdout |-> fields.stdout, stderr |-> fields.stderr,
                         exitCode |-> fields.exitCode]]
        ELSE [success |-> TRUE, data |-> fields]

\* runtime.sandbox.executeCommand settles.
CommandSettled(s, ok, exitCode, stdout, stderr) ==
    /\ stepPc[s] = "run"
    /\ stepInput[s].kind = "bash"
    /\ IF ok
       THEN Exit(s, stepLocal[s],
                 commandResult(stepInput[s], stepLocal[s].sandboxType,
                               exitCode, stdout, stderr))
       ELSE Catch(s, stepLocal[s], "executeCommand failed")
    /\ UNCHANGED <<processEnv, sandboxes, stepInput, stepResult>>
    /\ UNCHANGED <<ctlVars, pathVars>>

\* The finally block without its try / catch: a rejected cleanup replaces the
\* primary outcome.
CleanupSettled_Rethrows(s, ok) ==
    /\ stepPc[s] = "cleanup"
    /\ ok \/ stepLocal[s].cleanup = "remote"
    /\ sandboxes' = IF stepLocal[s].cleanup = "remote" /\ ok
                    THEN [sandboxes EXCEPT ![stepLocal[s].sandbox].state = "stopped"]
                    ELSE sandboxes
    /\ stepResult' = [stepResult EXCEPT ![s] =
                         IF ok THEN stepLocal[s].primary
                         ELSE caughtFailure(stepInput[s], stepLocal[s].sandboxType,
                                            "stop failed")]
    /\ stepPc' = [stepPc EXCEPT ![s] = "done"]
    /\ UNCHANGED <<processEnv, stepInput, stepLocal, stepCalls>>
    /\ UNCHANGED <<ctlVars, pathVars>>

\* await cleanup() of the finally block settles; a rejection is logged and
\* dropped.  Only sandbox.stop() can reject: the other closures are empty.
CleanupSettled(s, ok) ==
    /\ stepPc[s] = "cleanup"
    /\ ok \/ stepLocal[s].cleanup = "remote"
    /\ sandboxes' = IF stepLocal[s].cleanup = "remote" /\ ok
                    THEN [sandboxes EXCEPT ![stepLocal[s].sandbox].state = "stopped"]
                    ELSE sandboxes
    /\ stepResult' = [stepResult EXCEPT ![s] = stepLocal[s].primary]
    /\ stepPc' = [stepPc EXCEPT ![s] = "done"]
    /\ UNCHANGED <<processEnv, stepInput, stepLocal, stepCalls>>
    /\ UNCHANGED <<ctlVars, pathVars>>

(***************************************************************************)
(* Specification of the controller: one chain of nested invocations, the   *)
(* steps of one execution running one after the other.                     *)
(***************************************************************************)
Next ==
    \/ \E i \in Invocations, t \in TargetIds, e \in ExecutionIds, p \in ChainPayloads :
           ~StepInFlight(e) /\ Invoke(i, t, e, p)
    \/ \E i \in Invocations, ok \in BOOLEAN : ReadParent(i, ok)
    \/ \E i \in Invocations, ok \in BOOLEAN : FindChildWorkflow(i, ok)
    \/ \E i \in Invocations, valid \in BOOLEAN : ValidateIntegrations(i, TRUE, valid)
    \/ \E i \in Invocations : ValidateIntegrations(i, FALSE, FALSE)
    \/ \E i \in Invocations, ok \in BOOLEAN : InsertChildExecution(i, ok)
    \/ \E i \in Invocations, ok \in BOOLEAN : StartChildRun(i, ok)
    \/ \E i \in Invocations, ok \in BOOLEAN : RereadChildExecution(i, ok)
    \/ \E i \in Invocations : ChildRunRejected(i)
    \/ \E i \in Invocations, ok \in BOOLEAN : CatchUpdate(i, ok)
    \/ \E e \in ExecutionIds \ {1}, o \in Outputs :
           EngineWriteStatus(e, "success", o, Null)
    \/ \E e \in ExecutionIds \ {1}, m \in ErrorValues :
           EngineWriteStatus(e, "error", Null, m)
    \/ \E e \in ExecutionIds, how \in {"resolved", "rejected"} : EngineSettle(e, how)
    \/ \E e \in ExecutionIds : DeleteExecution(e)

Init == CtlInit /\ PathIdle /\ SandboxIdle

Spec == Init /\ [][Next]_vars

(***************************************************************************)
(* Specification of concurrent invocations: the steps of one execution are *)
(* not serialised, so an invocation may be made while another invocation   *)
(* of the same execution is suspended at any of its awaits.                *)
(***************************************************************************)
NextConcurrent ==
    \/ \E i \in Invocations, t \in {"w2", "w3"}, e \in ExecutionIds :
           Invoke(i, t, e, PlainPayload)
    \/ \E i \in Invocations, ok \in BOOLEAN : ReadParent(i, ok)
    \/ \E i \in Invocations, ok \in BOOLEAN : FindChildWorkflow(i, ok)
    \/ \E i \in Invocations, valid \in BOOLEAN : ValidateIntegrations(i, TRUE, valid)
    \/ \E i \in Invocations, ok \in BOOLEAN : InsertChildExecution(i, ok)
    \/ \E i \in Invocations, ok \in BOOLEAN : StartChildRun(i, ok)
    \/ \E i \in Invocations, ok \in BOOLEAN : RereadChildExecution(i, ok)
    \/ \E i \in Invocations : ChildRunRejected(i)
    \/ \E i \in Invocations, ok \in BOOLEAN : CatchUpdate(i, ok)
    \/ \E e \in ExecutionIds \ {1}, o \in Outputs :
           EngineWriteStatus(e, "success", o, Null)
    \/ \E e \in ExecutionIds \ {1} : EngineWriteStatus(e, "error", Null, "boom")
    \/ \E e \in ExecutionIds, how \in {"resolved", "rejected"} : EngineSettle(e, how)

SpecConcurrent == Init /\ [][NextConcurrent]_vars

(***************************************************************************)
(* Specification of one chain of nested invocations: every workflow holds  *)
(* one run-workflow step, which the run of the newest record invokes with  *)
(* a target that is the record's own workflow, a workflow already on the   *)
(* chain, the next workflow of the user, or a workflow that is not the     *)
(* user's.  The collaborators do not fail.                                 *)
(***************************************************************************)
ChainTargets == {ChainIds[k] : k \in 1..(Len(executions) + 1)} \cup {"w3", "w4"}

InvokeNested(i, targetWorkflowId, workflowInput) ==
    /\ \A j \in DOMAIN pc : call[j].executionId # Len(executions)
    /\ Invoke(i, targetWorkflowId, Len(executions), workflowInput)

NextChain ==
    \/ \E i \in 1..MaxChain, t \in ChainTargets, p \in Payloads : InvokeNested(i, t, p)
    \/ \E i \in 1..MaxChain : ReadParent(i, TRUE)
    \/ \E i \in 1..MaxChain : FindChildWorkflow(i, TRUE)
    \/ \E i \in 1..MaxChain : ValidateIntegrations(i, TRUE, TRUE)
    \/ \E i \in 1..MaxChain : InsertChildExecution(i, TRUE)
    \/ \E i \in 1..MaxChain : StartChildRun(i, TRUE)

InitChain == ChainInit /\ PathIdle /\ SandboxIdle

SpecChain == InitChain /\ [][NextChain]_vars

(***************************************************************************)
(* Specification of the entry of runWorkflow: one invocation with every    *)
(* input of RunWorkflowInputs, followed by the read of the parent row.     *)
(***************************************************************************)
\* The values a workflow designer can leave in the workflowInput field, by
\* their JavaScript type: undefined, null, a number, a boolean, an array, a
\* plain object, or a string.
WorkflowInputTexts ==
    {"", " ", "\n", "{}", " {} ", "{\"a\":1}", "[]", "[1]", "1", "oops", "{oops}", "{"}

WorkflowInputs ==
    {[js |-> t] : t \in {"undefined", "null", "number", "boolean", "array"}}
        \cup {[js |-> "object", object |-> p] : p \in {PlainPayload, ForgedPayload}}
        \cup {[js |-> "string", text |-> t] : t \in WorkflowInputTexts}

\* The RunWorkflowInput values of the model: targetWorkflowId is undefined
\* (Null), empty or a workflow id; _context.executionId is missing (0) or the
\* id of the running execution.
RunWorkflowInputs ==
    [targetWorkflowId : {Null, "", "w2", "w4"}, executionId : {0, 1},
     workflowInput : WorkflowInputs]

EmptyObject == [k \in {} |-> Null]

\* The object JSON.parse builds from the text of a JSON object.
ParsedObject(source) ==
    IF source = "{}" THEN EmptyObject ELSE [k \in {"a"} |-> 1]

\* parseWorkflowInput whose object branch lacks the Array.isArray test.
parseWorkflowInput_ArraysPass(workflowInput) ==
    IF workflowInput.js \in {"undefined", "null"}
    THEN [success |-> TRUE, input |-> EmptyObject]
    ELSE IF workflowInput.js = "string" /\ workflowInput.text = ""
    THEN [success |-> TRUE, input |-> EmptyObject]
    ELSE IF workflowInput.js = "object"
    THEN [success |-> TRUE, input |-> workflowInput.object]
    ELSE IF workflowInput.js = "array"
    THEN [success |-> TRUE, input |-> EmptyObject]
    ELSE IF workflowInput.js # "string"
    THEN [success |-> FALSE, message |-> "Workflow input must be a JSON object string."]
    ELSE IF TrimText(workflowInput.text) = ""
    THEN [success |-> TRUE, input |-> EmptyObject]
    ELSE LET parsed == JSONParse(TrimText(workflowInput.text))
         IN  IF parsed = <<>>
             THEN [success |-> FALSE, message |-> "Workflow input must be valid JSON."]
             ELSE IF parsed[1].json # "object"
             THEN [success |-> FALSE, message |-> "Workflow input must be a JSON object."]
             ELSE [success |-> TRUE, input |-> ParsedObject(parsed[1].source)]

\* parseWorkflowInput.  JSON.parse skips the whitespace around the value, so
\* it is applied to the trimmed text.
parseWorkflowInput(workflowInput) ==
    IF workflowInput.js \in {"undefined", "null"}
    THEN [success |-> TRUE, input |-> EmptyObject]
    ELSE IF workflowInput.js = "string" /\ workflowInput.text = ""
    THEN [success |-> TRUE, input |-> EmptyObject]
    ELSE IF workflowInput.js = "object"
    THEN [success |-> TRUE, input |-> workflowInput.object]
    ELSE IF workflowInput.js # "string"
    THEN [success |-> FALSE, message |-> "Workflow input must be a JSON object string."]
    ELSE IF TrimText(workflowInput.text) = ""
    THEN [success |-> TRUE, input |-> EmptyObject]
    ELSE LET parsed == JSONParse(TrimText(workflowInput.text))
         IN  IF parsed = <<>>
             THEN [success |-> FALSE, message |-> "Workflow input must be valid JSON."]
             ELSE IF parsed[1].json # "object"
             THEN [success |-> FALSE, message |-> "Workflow input must be a JSON object."]
             ELSE [success |-> TRUE, input |-> ParsedObject(parsed[1].source)]

\* runWorkflow from its entry, given the input as the engine hands it over:
\* the two presence checks and parseWorkflowInput, then, like Invoke, on to
\* the first await.  call keeps the input as given next to the parsed payload.
RunWorkflow(i, input) ==
    /\ pc[i] = "idle"
    /\ \A j \in 1..(i - 1) : pc[j] # "idle"
    /\ input.executionId # 0 =>
           input.executionId \in ExecutionIds /\ engine[input.executionId] = "running"
    /\ LET targetWorkflowId == input.targetWorkflowId
           executionId == input.executionId
           parsedInputResult == parseWorkflowInput(input.workflowInput)
           given(payload) == [targetWorkflowId |-> targetWorkflowId,
                              executionId |-> executionId,
                              workflowInput |-> payload,
                              given |-> input.workflowInput]
       IN  IF targetWorkflowId \in {Null, ""} \/ executionId = 0
           THEN /\ Return(i, buildError(
                       IF targetWorkflowId \in {Null, ""}
                       THEN "Target workflow is required."
                       ELSE "Run Workflow requires an execution context."))
                /\ call' = [call EXCEPT ![i] = given(EmptyObject)]
           ELSE IF ~parsedInputResult.success
           THEN /\ Return(i, buildError(parsedInputResult.message))
                /\ call' = [call EXCEPT ![i] = given(EmptyObject)]
           ELSE /\ call' = [call EXCEPT ![i] = given(parsedInputResult.input)]
                /\ pc' = [pc EXCEPT ![i] = "readParent"]
                /\ UNCHANGED result
    /\ UNCHANGED <<executions, engine, frame, calls>>
    /\ UNCHANGED <<pathVars, sandboxVars>>

NextInput ==
    \/ \E input \in RunWorkflowInputs : RunWorkflow(1, input)
    \/ \E ok \in BOOLEAN : ReadParent(1, ok)

SpecInput == Init /\ [][NextInput]_vars

(***************************************************************************)
(* Specification of the execution path tracker.                            *)
(***************************************************************************)
InitPath == CtlIdle /\ PathInit /\ SandboxIdle

NextPath == TrackPath

SpecPath == InitPath /\ [][NextPath]_vars

(***************************************************************************)
(* Specification of the recovery of the parent path on its own.            *)
(***************************************************************************)
InitParentPath ==
    /\ CtlIdle
    /\ probe = NoProbe
    /\ resolution = NoResolution
    /\ RecoveryInit
    /\ ScriptIdle
    /\ clamp = NoClamp
    /\ agentOutput = NoOutput
    /\ SandboxIdle

NextParentPath == RecoverParentPath

SpecParentPath == InitParentPath /\ [][NextParentPath]_vars

(***************************************************************************)
(* Specification of credential resolution on its own.                      *)
(***************************************************************************)
InitCredentials ==
    /\ CtlIdle
    /\ probe = NoProbe
    /\ recovery = NoRecovery
    /\ clamp = NoClamp
    /\ agentOutput = NoOutput
    /\ ResolutionInit
    /\ ScriptIdle
    /\ sandboxes = <<>>
    /\ stepPc = <<>>
    /\ stepInput = <<>>
    /\ stepLocal = <<>>
    /\ stepResult = <<>>
    /\ stepCalls = <<>>

NextCredentials == ResolveCredentials

SpecCredentials == InitCredentials /\ [][NextCredentials]_vars

(***************************************************************************)
(* Specification of the step-count ceiling on its own.                     *)
(***************************************************************************)
InitMaxSteps ==
    /\ CtlIdle
    /\ probe = NoProbe
    /\ recovery = NoRecovery
    /\ resolution = NoResolution
    /\ agentOutput = NoOutput
    /\ ClampInit
    /\ ScriptIdle
    /\ SandboxIdle

NextMaxSteps == ClampMaxSteps

SpecMaxSteps == InitMaxSteps /\ [][NextMaxSteps]_vars

(***************************************************************************)
(* Specification of agent output post-processing on its own.               *)
(***************************************************************************)
InitOutput ==
    /\ CtlIdle
    /\ probe = NoProbe
    /\ recovery = NoRecovery
    /\ resolution = NoResolution
    /\ clamp = NoClamp
    /\ OutputInit
    /\ ScriptIdle
    /\ SandboxIdle

NextOutput == ParseOutput

SpecOutput == InitOutput /\ [][NextOutput]_vars

\* The probe of step s returned and gave a non-zero exit code or an empty path.
ProbeFailed(s) ==
    /\ stepLocal[s].sandbox # 0
    /\ stepLocal[s].probeExitCode # 0 \/ stepLocal[s].destination = ""

(***************************************************************************)
(* Specification of one step invocation acquiring a sandbox session.       *)
(***************************************************************************)
ProbeStdouts == {"", "/vercel/sandbox/workspace"}

ProbeStderrs == {"", "denied"}

InitSandbox == CtlIdle /\ PathIdle /\ SandboxInit

NextSandbox ==
    \/ \E input \in StepInputs : StartStep(1, input)
    \/ \E s \in Steps \ {1}, input \in LaterStepInputs :
           /\ stepPc[s - 1] = "done"
           /\ ProbeFailed(s - 1)
           /\ StartStep(s, input)
    \/ \E s \in Steps, ok \in BOOLEAN : LocalToolReady(s, ok)
    \/ \E s \in Steps, ok \in BOOLEAN : SandboxCreated(s, ok)
    \/ \E s \in Steps, exitCode \in {0, 1}, stdout \in ProbeStdouts, stderr \in ProbeStderrs :
           ProbeSettled(s, TRUE, exitCode, stdout, stderr)
    \/ \E s \in Steps : ProbeSettled(s, FALSE, 0, "", "")
    \/ \E s \in Steps, text \in {"done", " {} "} :
           \E n \in {1, stepLocal[s].maxSteps, stepLocal[s].maxSteps + 1} :
               AgentRunSettled(s, TRUE, text, n)
    \/ \E s \in Steps : AgentRunSettled(s, FALSE, "done", 1)
    \/ \E s \in Steps, ok \in BOOLEAN : ToolsWrapped(s, ok)
    \/ \E s \in Steps, exitCode \in {0, 2} :
           CommandSettled(s, TRUE, exitCode, "out", "err")
    \/ \E s \in Steps : CommandSettled(s, FALSE, 0, "", "")
    \/ \E s \in Steps, ok \in BOOLEAN : CleanupSettled(s, ok)

SpecSandbox == InitSandbox /\ [][NextSandbox]_vars

(***************************************************************************)
(* Specification of concurrent step invocations: agent and bash steps with *)
(* valid inputs are invoked in any order and suspended at their awaits in  *)
(* any interleaving.                                                       *)
(***************************************************************************)
ConcurrentStepInputs ==
    {input \in StepInputs :
        /\ input.sandboxType \in {"vercel", "just-bash"}
        /\ input.vercelSandboxToken = OidcToken
        /\ input.oidcToken = NoToken
        /\ input.maxSteps = Null
        /\ input.apiKey = (input.kind = "agent")
        /\ input.agentPrompt = (IF input.kind = "agent" THEN "list files" ELSE Null)
        /\ input.command = (IF input.kind = "bash" THEN "ls" ELSE Null)}

NextSteps ==
    \/ \E s \in Steps, input \in ConcurrentStepInputs : StartStep(s, input)
    \/ \E s \in Steps, ok \in BOOLEAN : LocalToolReady(s, ok)
    \/ \E s \in Steps, ok \in BOOLEAN : SandboxCreated(s, ok)
    \/ \E s \in Steps, exitCode \in {0, 1} :
           ProbeSettled(s, TRUE, exitCode, "/vercel/sandbox/workspace", "")
    \/ \E s \in Steps, ok \in BOOLEAN : ToolsWrapped(s, ok)
    \/ \E s \in Steps, ok \in BOOLEAN : AgentRunSettled(s, ok, "done", 1)
    \/ \E s \in Steps, ok \in BOOLEAN : CommandSettled(s, ok, 0, "out", "")
    \/ \E s \in Steps, ok \in BOOLEAN : CleanupSettled(s, ok)

\* The deployment has both identifiers set.
InitSteps ==
    /\ InitSandbox
    /\ processEnv = [VERCEL_TEAM_ID |-> "id_env", VERCEL_PROJECT_ID |-> "id_env"]

SpecSteps == InitSteps /\ [][NextSteps]_vars

(***************************************************************************)
(* Database URL resolution (lib/db/resolve-database-url).                  *)
(***************************************************************************)
RUNTIME_DATABASE_URL_ENV_KEYS ==
    <<"DATABASE_URL", "POSTGRES_URL", "POSTGRES_PRISMA_URL", "POSTGRES_URL_NON_POOLING">>

MIGRATION_DATABASE_URL_ENV_KEYS ==
    <<"DATABASE_MIGRATION_URL", "DIRECT_URL", "POSTGRES_URL_NON_POOLING">>
        \o RUNTIME_DATABASE_URL_ENV_KEYS

LOCAL_DATABASE_URL == "postgres://localhost:5432/workflow"

DatabaseUrlKeys ==
    {MIGRATION_DATABASE_URL_ENV_KEYS[k] : k \in DOMAIN MIGRATION_DATABASE_URL_ENV_KEYS}

\* resolveDatabaseUrlFromKeys testing `value` instead of `value?.trim()`.
resolveDatabaseUrlFromKeys_NoTrim(envKeys, env) ==
    LET found == {k \in DOMAIN envKeys : env[envKeys[k]] \notin {Null, ""}}
        first == CHOOSE k \in found : \A j \in found : k <= j
    IN  IF found = {} THEN <<>>
        ELSE <<[key |-> envKeys[first], value |-> env[envKeys[first]]]>>

\* resolveDatabaseUrlFromKeys: the first key of envKeys whose value is
\* defined and not blank, with that value; <<>> for undefined.
resolveDatabaseUrlFromKeys(envKeys, env) ==
    LET found == {k \in DOMAIN envKeys :
                     env[envKeys[k]] # Null /\ ~IsBlank(env[envKeys[k]])}
        first == CHOOSE k \in found : \A j \in found : k <= j
    IN  IF found = {} THEN <<>>
        ELSE <<[key |-> envKeys[first], value |-> env[envKeys[first]]]>>

\* source?.value
ValueOf(source) == IF source = <<>> THEN Null ELSE source[1].value

\* a ?? b
Coalesce(a, b) == IF a = Null THEN b ELSE a

resolveDatabaseUrl(env) ==
    ValueOf(resolveDatabaseUrlFromKeys(RUNTIME_DATABASE_URL_ENV_KEYS, env))

resolveDatabaseUrlWithFallback(env) ==
    Coalesce(resolveDatabaseUrl(env), LOCAL_DATABASE_URL)

resolveMigrationDatabaseUrl(env) ==
    ValueOf(resolveDatabaseUrlFromKeys(MIGRATION_DATABASE_URL_ENV_KEYS, env))

resolveMigrationDatabaseUrlSource(env) ==
    resolveDatabaseUrlFromKeys(MIGRATION_DATABASE_URL_ENV_KEYS, env)

resolveMigrationDatabaseUrlWithFallback(env) ==
    Coalesce(resolveMigrationDatabaseUrl(env), LOCAL_DATABASE_URL)

\* The environments of the model: every key is unset, blank, or holds a URL
\* that names the key.
LookupEnvs ==
    {[key \in DatabaseUrlKeys |-> IF key \in unset THEN Null
                                  ELSE IF key \in blank THEN " "
                                  ELSE "postgres://host:5432/" \o key] :
        unset \in SUBSET DatabaseUrlKeys, blank \in SUBSET DatabaseUrlKeys}

LookupInit == \E env \in LookupEnvs : lookup = [applied |-> FALSE, env |-> env]

\* The five exported resolvers applied to one environment.
ResolveDatabaseUrls ==
    /\ ~lookup.applied
    /\ lookup' = [applied |-> TRUE,
                  env |-> lookup.env,
                  runtime |-> resolveDatabaseUrl(lookup.env),
                  runtimeWithFallback |-> resolveDatabaseUrlWithFallback(lookup.env),
                  migration |-> resolveMigrationDatabaseUrl(lookup.env),
                  migrationSource |-> resolveMigrationDatabaseUrlSource(lookup.env),
                  migrationWithFallback |->
                      resolveMigrationDatabaseUrlWithFallback(lookup.env)]
    /\ UNCHANGED <<probe, resolution, recovery, clamp, agentOutput, runner, exported>>
    /\ UNCHANGED <<ctlVars, sandboxVars>>

InitLookup ==
    /\ CtlIdle
    /\ probe = NoProbe
    /\ resolution = NoResolution
    /\ recovery = NoRecovery
    /\ clamp = NoClamp
    /\ agentOutput = NoOutput
    /\ runner = NoRunner
    /\ exported = NoExport
    /\ LookupInit
    /\ SandboxIdle

NextLookup == ResolveDatabaseUrls

SpecLookup == InitLookup /\ [][NextLookup]_vars

(***************************************************************************)
(* The production migration runner (scripts/migrate-prod.ts): the script   *)
(* with self-healing and runtime-URL fallback, and the plain script that   *)
(* runs the migrate command once.                                          *)
(***************************************************************************)
DatabaseHosts == {"db.abc123.supabase.co", "aws-0.pooler.supabase.com", "db.example.com"}

UrlTo(host) == "postgres://" \o host \o ":5432/postgres"

\* new URL(databaseUrl).hostname; Null when the constructor throws.
getDatabaseHost(databaseUrl) ==
    IF \E h \in DatabaseHosts : databaseUrl = UrlTo(h)
    THEN CHOOSE h \in DatabaseHosts : databaseUrl = UrlTo(h)
    ELSE Null

\* The project references of the model, matched by [a-z0-9]+.
ProjectRefs == {"abc123"}

\* SUPABASE_DIRECT_HOST_PATTERN.test(host)
isSupabaseDirectHost(host) ==
    host # Null /\ \E ref \in ProjectRefs : host = "db." \o ref \o ".supabase.co"

EnetUnreachText == "Error: connect ENETUNREACH 2600:1f18::1:5432\n"

MissingTableText ==
    "error: relation \"supabase_migrations.schema_migrations\" does not exist\n"

\* What the migrate command writes: either text, both, or neither.
MigrateOutputs == {a \o b : a \in {"", EnetUnreachText}, b \in {"", MissingTableText}}

\* The SpawnSyncReturns of one run of the migrate command.  status -1 stands
\* for null: the command could not be spawned, and wrote nothing.
SpawnResults ==
    [error : BOOLEAN, status : {0, 1}, output : MigrateOutputs]
        \cup {[error |-> TRUE, status |-> -1, output |-> ""]}

\* output.includes("ENETUNREACH")
containsEnetUnreachError(migrationResult) ==
    \E b \in {"", MissingTableText} : migrationResult.output = EnetUnreachText \o b

\* output.includes('relation "supabase_migrations.schema_migrations" does not exist')
containsMissingSupabaseMigrationsTableError(migrationResult) ==
    \E a \in {"", EnetUnreachText} : migrationResult.output = a \o MissingTableText

\* assertMigrationSucceeded looking at the exit status only.
assertMigrationSucceeded_StatusOnly(migrationResult) == migrationResult.status = 0

\* assertMigrationSucceeded: TRUE when it returns, FALSE when it throws.
assertMigrationSucceeded(migrationResult) ==
    ~migrationResult.error /\ migrationResult.status = 0

shouldBootstrapSupabaseMigrationsTable(migrationResult) ==
    migrationResult.status # 0 /\ containsMissingSupabaseMigrationsTableError(migrationResult)

\* The fallback decided without comparing the runtime URL with the primary.
shouldRetryWithRuntimeDatabaseUrl_AnyUrl(migrationResult, databaseUrl, runtimeSource) ==
    /\ migrationResult.status # 0
    /\ containsEnetUnreachError(migrationResult)
    /\ isSupabaseDirectHost(getDatabaseHost(databaseUrl))
    /\ runtimeSource # <<>>

shouldRetryWithRuntimeDatabaseUrl(migrationResult, databaseUrl, runtimeSource) ==
    /\ migrationResult.status # 0
    /\ containsEnetUnreachError(migrationResult)
    /\ isSupabaseDirectHost(getDatabaseHost(databaseUrl))
    /\ runtimeSource # <<>>
    /\ runtimeSource[1].value # databaseUrl

\* process.env of the runs of the model: the migration URL is unset, blank, a
\* direct Supabase URL or a pooler URL, the runtime URL is unset or a pooler URL.
RunnerEnvs ==
    {[key \in DatabaseUrlKeys |->
         IF key = "DATABASE_MIGRATION_URL" THEN a
         ELSE IF key = "DATABASE_URL" THEN b ELSE Null] :
        a \in {Null, " ", UrlTo("db.abc123.supabase.co"), UrlTo("aws-0.pooler.supabase.com")},
        b \in {Null, UrlTo("aws-0.pooler.supabase.com")}}

\* What resolveDatabaseUrlSource() returns.  Its code is not among the
\* sources, so it is any source or none.
RuntimeSources ==
    {<<>>} \cup {<<[key |-> "DATABASE_URL", value |-> UrlTo(h)]>> :
                    h \in {"db.abc123.supabase.co", "aws-0.pooler.supabase.com"}}

RunnerStart(script, vercelEnv, env, runtimeSource) ==
    [pc |-> "start", script |-> script, VERCEL_ENV |-> vercelEnv, env |-> env,
     runtimeDatabaseUrlSource |-> runtimeSource, attempt |-> "none",
     databaseUrl |-> Null, healed |-> FALSE, runs |-> <<>>, bootstraps |-> <<>>,
     exitCode |-> -1, success |-> FALSE]

RunnerInit ==
    \E vercelEnv \in {Null, "preview", "production"}, env \in RunnerEnvs :
        \/ \E runtimeSource \in RuntimeSources :
               runner = RunnerStart("self-healing", vercelEnv, env, runtimeSource)
        \/ runner = RunnerStart("plain", vercelEnv, env, <<>>)

\* process.exit(code), or the end of the script with nothing left to run.
ExitRunner(next, code) == [next EXCEPT !.pc = "exited", !.exitCode = code]

\* The script up to the first run of the migrate command.
StartRunner ==
    /\ runner.pc = "start"
    /\ LET databaseUrlSource == resolveMigrationDatabaseUrlSource(runner.env)
       IN  runner' =
               IF runner.VERCEL_ENV # "production"
               THEN ExitRunner(runner, 0)
               ELSE IF databaseUrlSource = <<>>
               THEN ExitRunner(runner, 1)
               ELSE [runner EXCEPT !.pc = "migrate", !.attempt = "primary",
                                   !.databaseUrl = databaseUrlSource[1].value]
    /\ UNCHANGED <<probe, resolution, recovery, clamp, agentOutput, lookup, exported>>
    /\ UNCHANGED <<ctlVars, sandboxVars>>

\* assertMigrationSucceeded(migrationResult) and what follows it.
Conclude(next, migrationResult) ==
    IF assertMigrationSucceeded(migrationResult)
    THEN [ExitRunner(next, 0) EXCEPT !.success = TRUE]
    ELSE ExitRunner(next, 1)

\* spawnSync("pnpm", ["db:migrate"]) returns: runMigrationsWithSelfHealing
\* goes on to the bootstrap or returns to main, which retries with the
\* runtime URL or concludes.
MigrateExited(migrationResult) ==
    /\ runner.pc = "migrate"
    /\ LET next == [runner EXCEPT !.runs = Append(@,
                        [attempt |-> runner.attempt, url |-> runner.databaseUrl,
                         migrationResult |-> migrationResult])]
           primaryUrl == next.runs[1].url
       IN  runner' =
               IF runner.script = "plain"
               THEN Conclude(next, migrationResult)
               ELSE IF ~runner.healed /\ shouldBootstrapSupabaseMigrationsTable(migrationResult)
               THEN [next EXCEPT !.pc = "bootstrap"]
               ELSE IF /\ runner.attempt = "primary"
                       /\ shouldRetryWithRuntimeDatabaseUrl(
                              migrationResult, primaryUrl, runner.runtimeDatabaseUrlSource)
               THEN [next EXCEPT !.attempt = "runtime", !.healed = FALSE,
                                 !.databaseUrl = runner.runtimeDatabaseUrlSource[1].value]
               ELSE Conclude(next, migrationResult)
    /\ UNCHANGED <<probe, resolution, recovery, clamp, agentOutput, lookup, exported>>
    /\ UNCHANGED <<ctlVars, sandboxVars>>

\* ensureSupabaseMigrationMetadata settles.  Fulfilled: the migrate command
\* is run again.  Rejected: the catch block of main exits with status 1.
BootstrapSettled(ok) ==
    /\ runner.pc = "bootstrap"
    /\ runner' = IF ok
                 THEN [runner EXCEPT !.pc = "migrate", !.healed = TRUE,
                                     !.bootstraps = Append(@, runner.databaseUrl)]
                 ELSE ExitRunner(runner, 1)
    /\ UNCHANGED <<probe, resolution, recovery, clamp, agentOutput, lookup, exported>>
    /\ UNCHANGED <<ctlVars, sandboxVars>>

InitRunner ==
    /\ CtlIdle
    /\ probe = NoProbe
    /\ resolution = NoResolution
    /\ recovery = NoRecovery
    /\ clamp = NoClamp
    /\ agentOutput = NoOutput
    /\ lookup = NoLookup
    /\ exported = NoExport
    /\ RunnerInit
    /\ SandboxIdle

NextRunner ==
    \/ StartRunner
    \/ \E migrationResult \in SpawnResults : MigrateExited(migrationResult)
    \/ \E ok \in BOOLEAN : BootstrapSettled(ok)

SpecRunner == InitRunner /\ [][NextRunner]_vars

\* The migrate command and the bootstrap queries end: a started script is
\* not suspended forever.
SpecRunnerFair == SpecRunner /\ WF_vars(NextRunner)

(***************************************************************************)
(* The run-workflow step of an exported project                            *)
(* (lib/codegen-templates/run-workflow.ts).                                *)
(***************************************************************************)
RuntimeRequired ==
    buildError("Run Workflow requires the Workflow Builder runtime and is not "
                   \o "available in standalone export.")

\* The inputs of the exported step: workflowInput is undefined (Null) or a
\* string.
TemplateInputs ==
    [targetWorkflowId : {"w2"}, workflowInput : {Null} \cup FinalTexts]

\* runWorkflowStep of the template without the Array.isArray test.
templateRunWorkflowStep_ArraysPass(input) ==
    IF input.workflowInput \in {Null, ""} \/ TrimText(input.workflowInput) = ""
    THEN RuntimeRequired
    ELSE LET value == JSONParse(TrimText(input.workflowInput))
         IN  IF value = <<>>
             THEN buildError("workflowInput must be valid JSON")
             ELSE IF value[1].json \notin {"object", "array"}
             THEN buildError("workflowInput must be a JSON object")
             ELSE RuntimeRequired

\* runWorkflowStep of the template.  JSON.parse skips the whitespace around
\* the value, so it is applied to the trimmed text.
templateRunWorkflowStep(input) ==
    IF input.workflowInput \in {Null, ""} \/ TrimText(input.workflowInput) = ""
    THEN RuntimeRequired
    ELSE LET value == JSONParse(TrimText(input.workflowInput))
         IN  IF value = <<>>
             THEN buildError("workflowInput must be valid JSON")
             ELSE IF value[1].json # "object"
             THEN buildError("workflowInput must be a JSON object")
             ELSE RuntimeRequired

ExportInit == \E input \in TemplateInputs : exported = [applied |-> FALSE, input |-> input]

\* The exported step is called once.
CallExportedStep ==
    /\ ~exported.applied
    /\ exported' = [applied |-> TRUE, input |-> exported.input,
                    result |-> templateRunWorkflowStep(exported.input)]
    /\ UNCHANGED <<probe, resolution, recovery, clamp, agentOutput, runner, lookup>>
    /\ UNCHANGED <<ctlVars, sandboxVars>>

InitExport ==
    /\ CtlIdle
    /\ probe = NoProbe
    /\ resolution = NoResolution
    /\ recovery = NoRecovery
    /\ clamp = NoClamp
    /\ agentOutput = NoOutput
    /\ runner = NoRunner
    /\ lookup = NoLookup
    /\ ExportInit
    /\ SandboxIdle

NextExport == CallExportedStep

SpecExport == InitExport /\ [][NextExport]_vars

(***************************************************************************)
(* Properties of the controller.                                           *)
(***************************************************************************)
ChildOf(i) == frame[i].childExecutionId

\* Invocation i returns in this step.
Returns(i) == pc[i] # "done" /\ pc'[i] = "done"

\* C1: when the target is an element of the path recovered for the parent
\* execution, the invocation returns the cycle failure naming the target, and
\* up to that return it created no execution row and launched no child run.
C1_CycleRejected ==
    [][\A i \in Invocations :
         LET parentExecution == executions[call[i].executionId]
             T == call[i].targetWorkflowId
         IN  ( /\ pc[i] = "readParent"
               /\ pc'[i] \notin {"readParent", "thrown"}
               /\ parentExecution.present
               /\ \E n \in DOMAIN getParentPath(parentExecution) :
                      getParentPath(parentExecution)[n] = T )
             => /\ pc'[i] = "done"
                /\ result'[i] = [success |-> FALSE,
                                 error |-> [message |-> CycleMessage(T)]]
                /\ calls'[i].insert = 0
                /\ calls'[i].start = 0
                /\ ChildOf(i)' = 0
                /\ executions' = executions
                /\ engine' = engine]_vars

\* C1 witness: a nested invocation was rejected because its target is an
\* ancestor two levels up (w1 -> w2 -> w1).
C1_Witness ==
    \E i \in Invocations :
        /\ pc[i] = "done"
        /\ result[i] = buildError(CycleMessage(call[i].targetWorkflowId))
        /\ call[i].executionId # 1
        /\ Len(getParentPath(executions[call[i].executionId])) = 2

\* C3: a failure returned after the child row was created leaves that row in
\* status error.
C3_FailureLeavesError ==
    [][\A i \in Invocations :
         ( /\ Returns(i)
           /\ ~result'[i].success
           /\ ChildOf(i) # 0
           /\ executions'[ChildOf(i)].present )
         => executions'[ChildOf(i)].status = "error"]_vars

\* C4: a row that has reached success or error never changes status again
\* for as long as it exists.
C4_TerminalStatusStable ==
    [][\A e \in ExecutionIds :
         (executions[e].status \in {"success", "error"} /\ executions'[e].present)
         => executions'[e].status = executions[e].status]_vars

\* C7: while the run of a launched child has not settled, the controller that
\* launched it is suspended on the completion signal: it has neither re-read
\* the row nor returned; a success result implies a fulfilled signal.
C7_ParentSuspendsUntilChildSettles ==
    \A i \in Invocations :
        /\ (ChildOf(i) # 0 /\ engine[ChildOf(i)] \in {"running", "written"})
              => pc[i] = "await"
        /\ (pc[i] = "done" /\ result[i].success)
              => engine[ChildOf(i)] = "resolved"

\* C7 witness: a controller returned success; its child run has resolved.
C7_Witness ==
    \E i \in Invocations :
        /\ pc[i] = "done"
        /\ result[i].success
        /\ engine[ChildOf(i)] = "resolved"

\* C8: an invocation whose target is missing or owned by another user returns
\* the not-found failure, one whose target fails validation returns the
\* validation failure, in both cases without creating a row or starting the
\* engine; every row that exists was created for a found and validated target.
C8_PreconditionsBeforeMutation ==
    /\ \A i \in Invocations :
         LET T == call[i].targetWorkflowId
             owned == T \in DOMAIN WorkflowOwner /\ WorkflowOwner[T] = frame[i].userId
             untouched == /\ calls[i] = [insert |-> 0, start |-> 0, update |-> 0]
                          /\ ChildOf(i) = 0
         IN  /\ (pc[i] = "done" /\ frame[i].userId # Null /\ ~owned)
                  => /\ result[i] = [success |-> FALSE, error |->
                            [message |-> "Target workflow not found or not accessible."]]
                     /\ untouched
             /\ (pc[i] = "done" /\ frame[i].validation = "invalid")
                  => /\ result[i] = [success |-> FALSE, error |->
                            [message |-> "Target workflow contains invalid integration references."]]
                     /\ untouched
             /\ (calls[i].insert > 0 \/ ChildOf(i) # 0)
                  => owned /\ frame[i].validation = "valid"
    /\ \A e \in ExecutionIds \ {1} : \E i \in Invocations : ChildOf(i) = e
    /\ \A e \in ExecutionIds :
         engine[e] # "none" => (e = 1 \/ \E i \in Invocations :
                                    ChildOf(i) = e /\ calls[i].start > 0)

\* C8 witness: both precondition failures have been returned, one for a
\* workflow of another user.
C8_Witness ==
    /\ \E i \in Invocations :
         /\ pc[i] = "done"
         /\ call[i].targetWorkflowId = "w3"
         /\ ~result[i].success
         /\ result[i].error.message = "Target workflow not found or not accessible."
    /\ \E i \in Invocations :
         /\ pc[i] = "done"
         /\ ~result[i].success
         /\ result[i].error.message
               = "Target workflow contains invalid integration references."

\* C9: the controller returns success exactly when the re-read child row has
\* status success, and then with the target id, the id of the row it created
\* and the output stored in that row.
C9_SuccessResult ==
    [][\A i \in Invocations :
         LET row == executions[ChildOf(i)]
             reread == pc[i] = "await" /\ row.present /\ row.status = "success"
         IN  Returns(i) =>
               /\ reread =>
                    result'[i] = [success |-> TRUE,
                                  data |-> [workflowId |-> call[i].targetWorkflowId,
                                            executionId |-> ChildOf(i),
                                            output |-> row.output]]
               /\ result'[i].success => reread]_vars

\* C9 witness: a success result carrying the second possible output.
C9_Witness ==
    \E i \in Invocations :
        /\ pc[i] = "done"
        /\ result[i].success
        /\ result[i].data.output = "out2"
        /\ result[i].data.executionId = ChildOf(i)

\* C10: when the re-read child row has status error, the failure carries the
\* recorded error message, or the fallback when none (null or empty) was recorded.
C10_ErrorResult ==
    [][\A i \in Invocations :
         LET row == executions[ChildOf(i)]
         IN  ( /\ Returns(i)
               /\ pc[i] = "await"
               /\ row.present
               /\ row.status = "error" )
             => result'[i] =
                  [success |-> FALSE,
                   error |-> [message |->
                       IF row.error = Null \/ row.error = ""
                       THEN "Child workflow execution failed."
                       ELSE row.error]]]_vars

\* C10 witness: both a recorded message and the fallback have been returned.
C10_Witness ==
    /\ \E i \in Invocations :
         /\ pc[i] = "done"
         /\ ChildOf(i) # 0
         /\ executions[ChildOf(i)].status = "error"
         /\ executions[ChildOf(i)].error = "boom"
         /\ result[i] = buildError("boom")
    /\ \E i \in Invocations :
         /\ pc[i] = "done"
         /\ ChildOf(i) # 0
         /\ executions[ChildOf(i)].status = "error"
         /\ executions[ChildOf(i)].error = Null
         /\ result[i] = buildError("Child workflow execution failed.")

(***************************************************************************)
(* Properties of the execution path tracker.                               *)
(***************************************************************************)
\* C2: the longest permitted path has 10 entries: for a target that is not in
\* the parent path, a parent path of up to 9 entries is extended by the
\* target, and one of 10 or more is refused with the depth failure that
\* carries the limit 10; a target that is in the parent path is refused as a
\* cycle whatever the length, the cycle check coming first.
C2_MaxPathLength ==
    probe.applied =>
        LET P == probe.parentPath
            T == probe.targetWorkflowId
            inPath == \E n \in DOMAIN P : P[n] = T
        IN  /\ (~inPath /\ Len(P) <= 9)
                 => probe.result = [success |-> TRUE, path |-> P \o <<T>>]
            /\ (~inPath /\ Len(P) >= 10)
                 => probe.result =
                      [success |-> FALSE,
                       error |-> [success |-> FALSE,
                                  error |-> [message |->
                                     "Maximum nested workflow depth (10) exceeded."]]]
            /\ inPath
                 => probe.result =
                      [success |-> FALSE,
                       error |-> [success |-> FALSE,
                                  error |-> [message |-> CycleMessage(T)]]]

\* C2 witness: a parent path of 10 entries and a new target were refused.
C2_Witness ==
    /\ probe.applied
    /\ Len(probe.parentPath) = 10
    /\ \A n \in DOMAIN probe.parentPath :
           probe.parentPath[n] # probe.targetWorkflowId
    /\ ~probe.result.success

(***************************************************************************)
(* Properties of the sandbox session lifecycle.                            *)
(***************************************************************************)
\* C5: a step whose destination probe returned a non-zero exit code or an
\* empty path has failed, and stop() was called on the handle it had created
\* before the failure was returned.
C5_ProbeFailureStopsHandle ==
    \A s \in Steps :
        (stepPc[s] = "done" /\ ProbeFailed(s))
            => /\ ~stepResult[s].success
               /\ stepCalls[s].stop = 1

\* The session factory returned to stepHandler, which bound the session's cleanup.
SessionAcquired(s) == stepLocal[s].cleanup \in {"local", "remote"}

\* C6: the cleanup of an acquired session is never invoked before the run has
\* ended nor more than once, and it has been invoked exactly once (stopping
\* the remote handle exactly once) when the step returns, whatever the exit path.
C6_CleanupExactlyOnce ==
    \A s \in Steps :
        /\ stepCalls[s].cleanup <= 1
        /\ stepCalls[s].stop <= 1
        /\ (SessionAcquired(s) /\ stepPc[s] = "run")
              => stepCalls[s].cleanup = 0 /\ stepCalls[s].stop = 0
        /\ (SessionAcquired(s) /\ stepPc[s] = "done")
              => /\ stepCalls[s].cleanup = 1
                 /\ stepCalls[s].stop = (IF stepLocal[s].cleanup = "remote" THEN 1 ELSE 0)

\* C6 witness: the tool loop threw against a remote session and the step has
\* returned its failure.
C6_Witness ==
    \E s \in Steps :
        /\ stepPc[s] = "done"
        /\ stepLocal[s].cleanup = "remote"
        /\ stepInput[s].kind = "agent"
        /\ stepResult[s] = [success |-> FALSE,
                            error |-> "Agent execution failed: model call failed"]
        /\ stepCalls[s].cleanup = 1

(***************************************************************************)
(* Further properties of the child execution controller.                   *)
(***************************************************************************)
\* C11: two invocations with identical input (same parent execution, same
\* target, same payload) that both got as far as creating a row hold two
\* different row ids, each made one insert of its own, and start() was
\* issued once for each of the two rows.
C11_NotIdempotent ==
    \A i, j \in Invocations :
        ( /\ i # j
          /\ call[i] = call[j]
          /\ ChildOf(i) # 0
          /\ ChildOf(j) # 0 )
        => /\ ChildOf(i) # ChildOf(j)
           /\ ChildOf(i) \in ExecutionIds /\ ChildOf(j) \in ExecutionIds
           /\ calls[i].insert = 1 /\ calls[j].insert = 1
           /\ calls[i].start = 1 /\ calls[j].start = 1

\* C11 witness: the same call was made twice, both children ran to success
\* and each result names a row of its own.
C11_Witness ==
    \E i, j \in Invocations :
        /\ i # j
        /\ call[i] = call[j]
        /\ pc[i] = "done" /\ pc[j] = "done"
        /\ result[i].success /\ result[j].success
        /\ result[i].data.executionId # result[j].data.executionId
        /\ engine[ChildOf(i)] = "resolved" /\ engine[ChildOf(j)] = "resolved"

(***************************************************************************)
(* Further properties of the sandbox session lifecycle.                    *)
(***************************************************************************)
\* Step s was invoked for the remote sandbox kind.
RemoteRequested(s) ==
    /\ stepPc[s] # "idle"
    /\ getSandboxType(stepInput[s].kind, stepInput[s].sandboxType) = "vercel"

\* Every token input of step s is missing or blank.
TokenMissing(s) ==
    /\ TokenFalsy(stepInput[s].vercelSandboxToken)
    /\ stepInput[s].kind = "bash" => TokenFalsy(stepInput[s].oidcToken)

\* Step s owns no remote sandbox handle and never asked for one.
NothingProvisioned(s) ==
    /\ stepCalls[s].create = 0
    /\ stepLocal[s].sandbox = 0
    /\ \A h \in DOMAIN sandboxes : sandboxes[h].owner # s

\* C12: a step invoked for the remote kind with no usable token never calls
\* the remote provider's create, and, its required inputs being present, it
\* returns a failure whose message says that the token is required.
C12_TokenRequired ==
    \A s \in Steps :
        (RemoteRequested(s) /\ TokenMissing(s))
        => /\ NothingProvisioned(s)
           /\ (stepPc[s] = "done" /\ inputFailure(stepInput[s]) = <<>>)
                => stepResult[s] =
                     caughtFailure(stepInput[s], "vercel",
                        IF stepInput[s].kind = "agent"
                        THEN "Vercel Sandbox token is required when Sandbox is set to Vercel Sandbox."
                        ELSE "OIDC token is required when Sandbox is set to Vercel Sandbox.")

\* C12 witness: an agent step with a blank token has returned the failure
\* although both environment identifiers are set.
C12_Witness ==
    \E s \in Steps :
        /\ stepPc[s] = "done"
        /\ stepInput[s].kind = "agent"
        /\ stepInput[s].vercelSandboxToken = BlankToken
        /\ processEnv.VERCEL_TEAM_ID = "id_env"
        /\ processEnv.VERCEL_PROJECT_ID = "id_env"
        /\ stepResult[s] = [success |-> FALSE, error |->
             "Agent execution failed: Vercel Sandbox token is required when Sandbox is set to Vercel Sandbox."]

(***************************************************************************)
(* Properties of credential resolution.                                    *)
(***************************************************************************)
\* The second segment carries owner_id and project_id as non-blank strings.
ValidClaims(segment) ==
    /\ segment.json = "object"
    /\ segment.owner_id \notin {Null, NonString} /\ ~IsBlank(segment.owner_id)
    /\ segment.project_id \notin {Null, NonString} /\ ~IsBlank(segment.project_id)

\* A token of exactly three segments whose second one carries valid claims.
WellFormedToken(token) ==
    /\ Len(token.parts) = 3
    /\ ValidClaims(token.parts[2])

\* What the environment alone gives for a token.
EnvironmentResolution(token, env) ==
    LET teamId == TrimString(env.VERCEL_TEAM_ID)
        projectId == TrimString(env.VERCEL_PROJECT_ID)
        present(v) == v \notin {Null, ""}
    IN  IF present(teamId) /\ present(projectId)
        THEN [ok |-> TRUE,
              credentials |-> [token |-> token, teamId |-> teamId, projectId |-> projectId]]
        ELSE IF present(teamId) \/ present(projectId)
        THEN [ok |-> FALSE, message |->
                "Both VERCEL_TEAM_ID and VERCEL_PROJECT_ID must be set together when using a non-OIDC Vercel token."]
        ELSE [ok |-> FALSE, message |->
                "Invalid Vercel Sandbox token configuration. Provide an OIDC token or set VERCEL_TEAM_ID and VERCEL_PROJECT_ID in server environment variables."]

\* C13: a well-formed three-segment token yields exactly the token with its
\* owner_id as team and its project_id as project; every other token (wrong
\* segment count, undecodable second segment, missing or blank claims)
\* yields nothing from the token and is resolved from the environment.
C13_TokenClaimsOrEnvironment ==
    resolution.applied =>
        LET token == resolution.token
        IN  IF WellFormedToken(token)
            THEN /\ resolution.parsed = <<[token |-> token,
                                           teamId |-> token.parts[2].owner_id,
                                           projectId |-> token.parts[2].project_id]>>
                 /\ resolution.resolved = [ok |-> TRUE,
                                           credentials |-> resolution.parsed[1]]
            ELSE /\ resolution.parsed = <<>>
                 /\ resolution.resolved = EnvironmentResolution(token, processEnv)

\* Step s was invoked, with its required inputs, for the remote kind and
\* with a token that parseOidcTokenCredentials cannot decode.
UndecodableToken(s) ==
    /\ RemoteRequested(s)
    /\ inputFailure(stepInput[s]) = <<>>
    /\ resolveToken(stepInput[s]).ok
    /\ parseOidcTokenCredentials(resolveToken(stepInput[s]).token) = <<>>

\* An environment identifier is set to a non-blank value.
EnvPresent(name) == processEnv[name] # Null /\ ~IsBlank(processEnv[name])

\* C14: for a token that cannot be decoded, both environment identifiers
\* present give the token with those identifiers (and create is called with
\* them); exactly one present gives the 'must be set together' failure and
\* none the 'invalid token configuration' failure, and in both failure
\* cases nothing is provisioned.
C14_EnvironmentFallback ==
    \A s \in Steps :
        UndecodableToken(s) =>
            LET team == EnvPresent("VERCEL_TEAM_ID")
                project == EnvPresent("VERCEL_PROJECT_ID")
                failsWith(message) ==
                    /\ NothingProvisioned(s)
                    /\ stepPc[s] = "done"
                          => stepResult[s] = caughtFailure(stepInput[s], "vercel", message)
            IN  /\ (team /\ project)
                     => /\ stepCalls[s].create = 1
                        /\ stepLocal[s].credentials =
                             [token |-> resolveToken(stepInput[s]).token,
                              teamId |-> "id_env", projectId |-> "id_env"]
                /\ (team /\ ~project) \/ (~team /\ project)
                     => failsWith("Both VERCEL_TEAM_ID and VERCEL_PROJECT_ID must be set together when using a non-OIDC Vercel token.")
                /\ (~team /\ ~project)
                     => failsWith("Invalid Vercel Sandbox token configuration. Provide an OIDC token or set VERCEL_TEAM_ID and VERCEL_PROJECT_ID in server environment variables.")

\* C14 witness: a bash step with an opaque token has failed because only the
\* team identifier is set (the project identifier is blank).
C14_Witness ==
    \E s \in Steps :
        /\ stepPc[s] = "done"
        /\ stepInput[s].kind = "bash"
        /\ stepInput[s].oidcToken = AccessToken
        /\ processEnv = [VERCEL_TEAM_ID |-> "id_env", VERCEL_PROJECT_ID |-> " "]
        /\ ~stepResult[s].success
        /\ stepResult[s].error.message =
             "Failed to execute command: Both VERCEL_TEAM_ID and VERCEL_PROJECT_ID must be set together when using a non-OIDC Vercel token."
        /\ stepCalls[s].create = 0

\* The cleanup of step s called sandbox.stop() and the call was rejected.
CleanupThrew(s) ==
    /\ stepPc[s] = "done"
    /\ stepCalls[s].stop = 1
    /\ sandboxes[stepLocal[s].sandbox].state = "live"

\* C15: the result a step returns after its finally block is the primary
\* outcome computed by its body, whether the cleanup was fulfilled or rejected.
C15_CleanupFaultSwallowed ==
    \A s \in Steps :
        (stepPc[s] = "done" /\ stepCalls[s].cleanup = 1)
            => stepResult[s] = stepLocal[s].primary

\* C15 witness: sandbox.stop() was rejected after a successful command and
\* the step returned the success.
C15_Witness ==
    \E s \in Steps :
        /\ CleanupThrew(s)
        /\ stepInput[s].kind = "bash"
        /\ stepResult[s].success
        /\ stepResult[s].data.exitCode = 0

(***************************************************************************)
(* Properties of the step boundary.                                        *)
(***************************************************************************)
\* C16: no run-workflow invocation ends by an exception: a fault of the
\* execution-record store, the workflow store, the validator or the engine
\* is turned into a failure result.
C16_NoUncaughtFault ==
    \A i \in Invocations :
        /\ pc[i] # "thrown"
        /\ pc[i] = "done" => result[i] # NoResult

\* C17: every result a step returns is of the uniform shape: a success
\* carries a data slot, a failure carries an error object that has a message.
C17_UniformResult ==
    \A s \in Steps :
        stepPc[s] = "done" =>
            IF stepResult[s].success
            THEN "data" \in DOMAIN stepResult[s]
            ELSE /\ typeofError(stepInput[s].kind) = "object"
                 /\ "message" \in DOMAIN stepResult[s].error

(***************************************************************************)
(* Properties of the step-count ceiling.                                   *)
(***************************************************************************)
\* C18: the effective step-count ceiling is the requested integer clamped to
\* [1,50] with default 10: it always lies in [1,50]; an absent or non-numeric
\* request gives 10; every integer request below 1 gives 1 and every request
\* above 50 gives 50.
C18_CeilingClamped ==
    clamp.applied =>
        /\ clamp.ceiling \in 1..50
        /\ clamp.request \in {Null, ""} \cup NonNumericRequests => clamp.ceiling = 10
        /\ \A n \in IntegerRange :
               clamp.request = ToString(n) =>
                   clamp.ceiling = IF n < 1 THEN 1 ELSE IF n > 50 THEN 50 ELSE n

(***************************************************************************)
(* Properties of the tool loop.                                            *)
(***************************************************************************)
AgentSucceeded(s) ==
    /\ stepPc[s] = "done"
    /\ stepInput[s].kind = "agent"
    /\ stepResult[s].success

\* C19: a tool-loop run stops at model-declared completion or when the step
\* count reaches the effective ceiling, whichever comes first: for every
\* successful agent result stepsUsed is at most the effective ceiling (ceiling
\* 3 implies stepsUsed <= 3), and data is either the parsed JSON value or
\* {text, stepsUsed}.
C19_StepsWithinCeiling ==
    \A s \in Steps :
        AgentSucceeded(s) =>
            LET r == stepResult[s]
                ceiling == effectiveMaxSteps(stepInput[s].maxSteps)
            IN  /\ r.stepsUsed \in 1..ceiling
                /\ stepInput[s].maxSteps = "3" => ceiling = 3 /\ r.stepsUsed <= 3
                /\ IF "json" \in DOMAIN r.data
                   THEN <<r.data>> = JSONParse(TrimText(r.text))
                   ELSE r.data = [text |-> TrimText(r.text), stepsUsed |-> r.stepsUsed]

\* The scenario of the claim: the local sandbox, prompt "list files", ceiling
\* 3, and a run that used all three steps.
C19_Witness ==
    \E s \in Steps :
        /\ AgentSucceeded(s)
        /\ stepInput[s].maxSteps = "3"
        /\ stepInput[s].agentPrompt = "list files"
        /\ stepLocal[s].sandboxType = "just-bash"
        /\ stepResult[s].stepsUsed = 3

(***************************************************************************)
(* Properties of agent output post-processing.                             *)
(***************************************************************************)
\* C20: the final text is trimmed; if the trimmed text starts with '{' and
\* ends with '}', or starts with '[' and ends with ']', and parses as JSON,
\* data is the parsed value; in every other case (not JSON-looking, or
\* JSON-looking but unparseable) data is {text: trimmed text, stepsUsed:
\* number of steps}.
C20_OutputPostProcessing ==
    agentOutput.applied =>
        \A l \in Whitespace, o \in Opens, b \in Bodies, c \in Closes, r \in Whitespace :
            agentOutput.text = l \o o \o b \o c \o r =>
                LET trimmed == o \o b \o c
                IN  IF o = "{" /\ c = "}" /\ b \in ObjectBodies
                    THEN agentOutput.data = [json |-> "object", source |-> trimmed]
                    ELSE IF o = "[" /\ c = "]" /\ b \in ArrayBodies
                    THEN agentOutput.data = [json |-> "array", source |-> trimmed]
                    ELSE agentOutput.data = [text |-> trimmed, stepsUsed |-> agentOutput.steps]

\* A bracketed text that is not JSON, padded with whitespace, comes back as
\* the trimmed text with the number of steps.
C20_Witness ==
    /\ agentOutput.applied
    /\ agentOutput.text = "\n[oops] "
    /\ agentOutput.data = [text |-> "[oops]", stepsUsed |-> MaxStepsUsed]

(***************************************************************************)
(* Properties of chains of nested invocations.                             *)
(***************************************************************************)
StoredPath(e) == executions[e].input[META_KEY].path

\* C21: after any sequence of nested invocations starting from a root
\* execution whose input carries no envelope, the execution path stored in
\* every child record's envelope has no duplicate workflow ids, has length at
\* most 10, starts with the root workflow id and ends with that record's own
\* workflow id.
C21_StoredPathWellFormed ==
    /\ META_KEY \notin DOMAIN executions[1].input
    /\ \A e \in ExecutionIds \ {1} :
           LET path == StoredPath(e)
           IN  /\ \A m \in DOMAIN path, n \in DOMAIN path : path[m] = path[n] => m = n
               /\ Len(path) \in 2..10
               /\ path[1] = executions[1].workflowId
               /\ path[Len(path)] = executions[e].workflowId

\* A chain that reached the cap: a record whose stored path has ten entries.
C21_Witness ==
    \E e \in ExecutionIds \ {1} :
        /\ Len(StoredPath(e)) = 10
        /\ StoredPath(e)[10] = executions[e].workflowId

\* The invocation has read its parent record and applied buildNextPath.
PathChecked(i) == pc[i] \notin {"idle", "readParent"}

\* C22: nested invocation cannot recurse forever: where every workflow holds
\* a run-workflow step (a workflow that targets itself and mutually recursive
\* workflows included), a chain started from one root execution creates at
\* most 9 child records below the root and then fails with a cycle or depth
\* failure instead of launching another child.
C22_ChainTerminates ==
    /\ Len(executions) <= 1 + 9
    /\ \A i \in DOMAIN pc :
           PathChecked(i) =>
               LET parent == executions[call[i].executionId]
                   target == call[i].targetWorkflowId
                   failed(message) == /\ pc[i] = "done"
                                      /\ result[i] = buildError(message)
                                      /\ calls[i].insert = 0
                                      /\ calls[i].start = 0
               IN  /\ target = parent.workflowId => failed(CycleMessage(target))
                   /\ call[i].executionId > 1 /\ Includes(StoredPath(call[i].executionId), target)
                          => failed(CycleMessage(target))
                   /\ call[i].executionId = 1 + 9 =>
                          failed(CycleMessage(target)) \/ failed(DepthMessage)

\* The ninth child record invoked the step with a workflow that is not on
\* the chain and got the depth failure.
C22_Witness ==
    \E i \in DOMAIN pc :
        /\ Len(executions) = 1 + 9
        /\ call[i].executionId = 1 + 9
        /\ ~Includes(StoredPath(1 + 9), call[i].targetWorkflowId)
        /\ result[i] = buildError(DepthMessage)

(***************************************************************************)
(* Properties of the catch block of executeChildWorkflow.                  *)
(***************************************************************************)
\* C23: an exception thrown after the child record was created (engine start
\* failure, rejected completion signal, failed re-read) is caught, and the
\* known child record is updated to status error with the caught message and
\* a completion timestamp before the failure is returned to the caller; if
\* the exception occurs before the insert completed, no record is updated and
\* only the failure is returned.
C23_CatchMarksChildFailed ==
    [][\A i \in Invocations :
          LET child == frame[i].childExecutionId
          IN  /\ pc[i] \in {"start", "await"} /\ pc'[i] \notin {"await", "done", pc[i]} =>
                    /\ pc'[i] = "catch"
                    /\ child # 0
                    /\ calls'[i].update = calls[i].update + 1
                    /\ frame'[i].errorMessage \in {"start failed", "run failed", "read failed"}
              /\ pc[i] = "catch" /\ pc'[i] = "done" =>
                    /\ result'[i] = RunWorkflowFailed(frame[i].errorMessage)
                    /\ executions[child].present =>
                           /\ executions'[child].status = "error"
                           /\ executions'[child].error = frame[i].errorMessage
                           /\ executions'[child].completedAt
              /\ pc[i] = "insert" /\ pc'[i] = "done" =>
                    /\ result'[i] = RunWorkflowFailed("insert failed")
                    /\ child = 0
                    /\ executions' = executions
                    /\ calls'[i].update = 0
       ]_vars

\* The engine refused to start the child run: the record that was still
\* running now holds the failure, and the caller got it.
C23_Witness ==
    \E i \in Invocations :
        /\ pc[i] = "done"
        /\ result[i] = RunWorkflowFailed("start failed")
        /\ frame[i].childExecutionId # 0
        /\ executions[frame[i].childExecutionId].status = "error"
        /\ executions[frame[i].childExecutionId].error = "start failed"
        /\ executions[frame[i].childExecutionId].completedAt

NotFoundFailure == buildError("Child workflow execution record was not found.")

\* C24: if the child's record is absent when re-read after the completion
\* signal resolved, the controller returns a not-found failure and performs no
\* further store mutation (no update is issued for the vanished record).  The
\* only other way on is the re-read itself throwing.
C24_VanishedRecordLeftAlone ==
    [][\A i \in Invocations :
          /\ pc[i] = "await" /\ pc'[i] # "await"
                /\ engine[frame[i].childExecutionId] = "resolved"
                /\ ~executions[frame[i].childExecutionId].present
                =>  \/ /\ pc'[i] = "done"
                       /\ result'[i] = NotFoundFailure
                       /\ executions' = executions
                       /\ calls'[i] = calls[i]
                    \/ /\ pc'[i] = "catch"
                       /\ frame'[i].errorMessage = "read failed"
          /\ result'[i] = NotFoundFailure => calls'[i].update = 0
       ]_vars

\* The record was deleted while its run was in progress; the run resolved and
\* the controller returned the not-found failure without issuing an update.
C24_Witness ==
    \E i \in Invocations :
        /\ pc[i] = "done"
        /\ result[i] = NotFoundFailure
        /\ ~executions[frame[i].childExecutionId].present
        /\ engine[frame[i].childExecutionId] = "resolved"
        /\ calls[i].update = 0

(***************************************************************************)
(* Properties of the child record.                                         *)
(***************************************************************************)
\* C25: the child record is created with status running and input equal to
\* the caller payload merged with the envelope {path: extended path,
\* parentExecutionId: invoking execution id, parentWorkflowId: parent's
\* workflow id}; the controller's envelope always wins, so a caller payload
\* that itself contains an envelope key can never replace or shorten the path
\* stored in the child record.
C25_EnvelopeWins ==
    [][\A i \in DOMAIN pc :
          pc[i] = "insert" /\ pc'[i] = "start" =>
              LET parentId == call[i].executionId
                  parent == executions[parentId]
                  parentPath == IF parentId = 1 THEN <<parent.workflowId>>
                                ELSE StoredPath(parentId)
                  payload == call[i].workflowInput
                  child == executions'[Len(executions')]
              IN  /\ Len(executions') = Len(executions) + 1
                  /\ frame'[i].childExecutionId = Len(executions')
                  /\ child.status = "running"
                  /\ child.workflowId = call[i].targetWorkflowId
                  /\ DOMAIN child.input = DOMAIN payload \cup {META_KEY}
                  /\ \A k \in DOMAIN payload \ {META_KEY} : child.input[k] = payload[k]
                  /\ child.input[META_KEY] =
                         [path |-> Append(parentPath, call[i].targetWorkflowId),
                          parentExecutionId |-> parentId,
                          parentWorkflowId |-> parent.workflowId]
       ]_vars

\* A grandchild was created from a payload carrying its own envelope, and the
\* stored path is the extended path of the chain, not the payload's.
C25_Witness ==
    \E i \in DOMAIN pc :
        /\ call[i].workflowInput = ForgedPayload
        /\ call[i].executionId > 1
        /\ frame[i].childExecutionId # 0
        /\ Len(StoredPath(frame[i].childExecutionId)) = 3
        /\ StoredPath(frame[i].childExecutionId) # ForgedMeta.path

(***************************************************************************)
(* Properties of the recovery of the parent path.                          *)
(***************************************************************************)
\* The strings of an array, in order.
StringsOf(array) == SelectSeq(array, LAMBDA item : item # NonString)

\* The input is an object whose envelope is an object with a path array that
\* holds at least one string, a string parentExecutionId and a string
\* parentWorkflowId.
UsableEnvelope(input) ==
    /\ PRIMITIVE \notin DOMAIN input
    /\ META_KEY \in DOMAIN input
    /\ PRIMITIVE \notin DOMAIN input[META_KEY]
    /\ {"path", "parentExecutionId", "parentWorkflowId"} \subseteq DOMAIN input[META_KEY]
    /\ StringsOf(input[META_KEY].path) # <<>>
    /\ input[META_KEY].parentExecutionId # 0
    /\ input[META_KEY].parentWorkflowId # NonString

\* C26: the parent path is recovered from the parent record's own envelope,
\* and falls back to the singleton path [parent workflow id] whenever no
\* usable envelope is present (input not an object, no envelope, empty path
\* after dropping non-string entries, or missing parentExecutionId /
\* parentWorkflowId); consequently a workflow that targets itself at the
\* root, where no envelope is present, is rejected as a cycle.
C26_ParentPathRecovered ==
    recovery.applied =>
        IF UsableEnvelope(recovery.input)
        THEN recovery.path = StringsOf(recovery.input[META_KEY].path)
        ELSE /\ recovery.path = <<recovery.workflowId>>
             /\ recovery.selfTarget =
                    [success |-> FALSE,
                     error |-> buildError(CycleMessage(recovery.workflowId))]

\* An envelope whose path holds no string and an envelope without a
\* parentExecutionId both fall back to the singleton path.
C26_Witness ==
    /\ recovery.applied
    /\ recovery.path = <<recovery.workflowId>>
    /\ META_KEY \in DOMAIN recovery.input
    /\ PRIMITIVE \notin DOMAIN recovery.input[META_KEY]
    /\ "parentExecutionId" \notin DOMAIN recovery.input[META_KEY]
    /\ recovery.input[META_KEY].path = <<"w2", NonString>>
    /\ ~recovery.selfTarget.success

(***************************************************************************)
(* Properties of the execution path tracker as a function.                 *)
(***************************************************************************)
\* C27: the execution path tracker is a pure function: computing the next
\* path performs no store access and never mutates the parent path it was
\* given; on success it returns a new sequence equal to the parent path with
\* the target appended, and the parent path value is unchanged afterwards on
\* both success and failure.
C27_TrackerIsPure ==
    [][probe'.applied /\ ~probe.applied =>
          /\ probe'.parentPath = probe.parentPath
          /\ probe'.targetWorkflowId = probe.targetWorkflowId
          /\ probe'.result.success =>
                 probe'.result.path = Append(probe.parentPath, probe.targetWorkflowId)
          /\ ~probe'.result.success => DOMAIN probe'.result = {"success", "error"}
          /\ UNCHANGED <<executions, engine, calls>>
       ]_vars

\* A nine-entry parent path was extended to ten entries and is still nine
\* entries long.
C27_Witness ==
    /\ probe.applied
    /\ probe.result.success
    /\ Len(probe.parentPath) = 9
    /\ Len(probe.result.path) = 10

(***************************************************************************)
(* Properties of the direct-command step.                                  *)
(***************************************************************************)
ExecutionContext == {"command", "sandboxType", "stdout", "stderr", "exitCode"}

\* C28: in the direct-command step, a command that exits with a non-zero code
\* yields a failure enriched with command, sandboxType, stdout, stderr and
\* exitCode, a command that exits with zero yields a success carrying the same
\* five fields, and an exception yields a failure carrying only message,
\* command and sandboxType; the session cleanup runs in all three cases.
C28_CommandOutcomes ==
    [][\A s \in Steps :
          LET r == stepLocal'[s].primary
              enriched(fields, exitCode) ==
                  /\ fields.command = "ls"
                  /\ fields.sandboxType = stepLocal[s].sandboxType
                  /\ fields.stdout = "out"
                  /\ fields.stderr = "err"
                  /\ fields.exitCode = exitCode
              exception ==
                  /\ ~r.success
                  /\ DOMAIN r.error = {"message", "command", "sandboxType"}
                  /\ r.error.command = "ls"
                  /\ r.error.sandboxType = stepLocal'[s].sandboxType
              cleanupRuns ==
                  /\ stepPc'[s] = "cleanup"
                  /\ stepCalls'[s].cleanup = stepCalls[s].cleanup + 1
          IN  /\ CommandSettled(s, TRUE, 2, "out", "err") =>
                    /\ ~r.success
                    /\ DOMAIN r.error = ExecutionContext \cup {"message"}
                    /\ enriched(r.error, 2)
                    /\ cleanupRuns
              /\ CommandSettled(s, TRUE, 0, "out", "err") =>
                    /\ r.success
                    /\ DOMAIN r.data = ExecutionContext
                    /\ enriched(r.data, 0)
                    /\ cleanupRuns
              /\ CommandSettled(s, FALSE, 0, "", "") => exception /\ cleanupRuns
              /\ stepInput'[s].kind = "bash" /\ stepPc[s] \notin {"run", "cleanup"}
                    /\ stepPc'[s] = "cleanup" => exception /\ cleanupRuns
              /\ stepInput[s].kind = "bash" /\ stepPc[s] = "cleanup" /\ stepPc'[s] = "done" =>
                    /\ stepResult'[s] = stepLocal[s].primary
                    /\ stepCalls'[s].cleanup = 1
       ]_vars

\* A command that exited with code 2 in a remote session: the failure holds
\* the execution context and the session was cleaned up.
C28_Witness ==
    \E s \in Steps :
        /\ stepPc[s] = "done"
        /\ stepInput[s].kind = "bash"
        /\ ~stepResult[s].success
        /\ DOMAIN stepResult[s].error = ExecutionContext \cup {"message"}
        /\ stepResult[s].error.exitCode = 2
        /\ stepLocal[s].cleanup = "remote"
        /\ stepCalls[s].cleanup = 1

(***************************************************************************)
(* Properties of the choice of the sandbox kind.                           *)
(***************************************************************************)
\* The step passed its input validation and chose a sandbox kind.
KindSelected(s) == stepPc[s] # "idle" /\ inputFailure(stepInput[s]) = <<>>

\* C29: in the agent step only the exact value 'just-bash' selects the
\* local-simulated kind and every other or absent value selects remote, while
\* in the direct-command step only the exact value 'vercel' selects remote and
\* every other or absent value selects local; whenever the local kind is
\* selected, no remote handle is provisioned, no probe is run and cleanup is a
\* no-op.
C29_KindSelection ==
    \A s \in Steps :
        KindSelected(s) =>
            LET requested == stepInput[s].sandboxType
                local == IF stepInput[s].kind = "agent"
                         THEN requested = "just-bash"
                         ELSE requested # "vercel"
            IN  /\ stepLocal[s].sandboxType = IF local THEN "just-bash" ELSE "vercel"
                /\ local =>
                       /\ stepCalls[s].create = 0
                       /\ stepCalls[s].probe = 0
                       /\ stepCalls[s].stop = 0
                       /\ stepLocal[s].cleanup \in {"default", "local"}
                       /\ \A h \in DOMAIN sandboxes : sandboxes[h].owner # s
                /\ ~local => stepPc[s] # "localTool" /\ stepLocal[s].cleanup # "local"

\* A direct-command step asked for an unknown kind: it ran locally and its
\* cleanup stopped nothing.
C29_Witness ==
    \E s \in Steps :
        /\ stepPc[s] = "done"
        /\ stepInput[s].kind = "bash"
        /\ stepInput[s].sandboxType = "docker"
        /\ stepResult[s].success
        /\ stepLocal[s].cleanup = "local"
        /\ stepCalls[s].cleanup = 1
        /\ stepCalls[s].stop = 0

(***************************************************************************)
(* Properties of input validation.                                         *)
(***************************************************************************)
\* A missing or blank string input.
Missing(v) == v = Null \/ v = "" \/ v = " "

InvalidInput(input) ==
    IF input.kind = "agent"
    THEN ~input.apiKey \/ Missing(input.agentPrompt)
    ELSE Missing(input.command)

\* C30: input validation precedes session acquisition: the agent step with a
\* missing API key or a missing / blank prompt, and the direct-command step
\* with a missing / blank command, return a failure without acquiring any
\* sandbox session (no local tool set built, no remote handle provisioned, no
\* model call made), and the steps themselves never retry a failed model or
\* tool invocation.
C30_ValidationFirst ==
    [][\A s \in Steps :
          /\ stepPc[s] = "idle" /\ stepPc'[s] # "idle" /\ InvalidInput(stepInput'[s]) =>
                /\ stepPc'[s] = "done"
                /\ ~stepResult'[s].success
                /\ stepCalls'[s] = NoStepCalls
                /\ stepLocal'[s] = NoStepLocal
                /\ sandboxes' = sandboxes
          /\ stepPc[s] = "done" => stepPc'[s] = "done" /\ stepCalls'[s] = stepCalls[s]
          /\ stepCalls'[s].run <= 1
          /\ stepCalls'[s].create <= 1
          /\ stepCalls'[s].probe <= 1
          /\ stepPc[s] = "run" /\ stepPc'[s] # "run" =>
                stepPc'[s] = "cleanup" /\ stepCalls'[s].run = 1
       ]_vars

\* An agent step with an API key and a blank prompt returned the failure at
\* once, with no collaborator called.
C30_Witness ==
    \E s \in Steps :
        /\ stepPc[s] = "done"
        /\ stepInput[s].kind = "agent"
        /\ stepInput[s].apiKey
        /\ stepInput[s].agentPrompt = " "
        /\ stepResult[s] = [success |-> FALSE, error |-> "Agent prompt is required"]
        /\ stepCalls[s] = NoStepCalls

\* The workflow inputs the step accepts: nothing, a plain object, a blank
\* string, or a string holding a JSON object.
AbsentInput(workflowInput) ==
    \/ workflowInput.js \in {"undefined", "null"}
    \/ workflowInput.js = "string" /\ workflowInput.text \in {"", " ", "\n"}

HoldsJsonObject(workflowInput) ==
    workflowInput.js = "string" /\ workflowInput.text \in {"{}", " {} ", "{\"a\":1}"}

RejectedInput(input) ==
    \/ input.targetWorkflowId \in {Null, ""}
    \/ input.executionId = 0
    \/ ~(\/ AbsentInput(input.workflowInput)
         \/ input.workflowInput.js = "object"
         \/ HoldsJsonObject(input.workflowInput))

\* C31: an invocation with no target workflow id, no execution context, or
\* a workflow input that is neither blank, a plain object nor a string
\* holding a JSON object returns a failure at once, with no store call made
\* and no record changed; any other invocation goes on to the read of the
\* parent row, and with a blank or absent input its payload is the empty
\* object.
C31_InputCheckedFirst ==
    [][\A input \in RunWorkflowInputs :
          RunWorkflow(1, input) =>
              /\ RejectedInput(input) =>
                     /\ pc'[1] = "done"
                     /\ result'[1].success = FALSE
                     /\ calls' = calls
                     /\ executions' = executions
              /\ ~RejectedInput(input) =>
                     /\ pc'[1] = "readParent"
                     /\ result'[1] = NoResult
                     /\ AbsentInput(input.workflowInput) =>
                            call'[1].workflowInput = EmptyObject]_vars

\* A JSON array in the input string of a well-addressed invocation was
\* refused with no store call made.
C31_Witness ==
    /\ pc[1] = "done"
    /\ call[1].given = [js |-> "string", text |-> "[1]"]
    /\ call[1].targetWorkflowId = "w2"
    /\ call[1].executionId = 1
    /\ result[1] = buildError("Workflow input must be a JSON object.")
    /\ calls[1] = NoCalls

\* C32: whatever the interleaving, a step of invocation i changes no record
\* but the child record i created (so never the parent's record nor the
\* child record of another invocation), the record i inserts is a new one
\* that no other invocation holds, and a result i returns after the re-read
\* carries the id, the workflow and the output (or the error) of the record
\* i created.
C32_OwnRecordOnly ==
    [][\A i \in Invocations :
          pc'[i] # pc[i] =>
              /\ \A e \in ExecutionIds :
                     executions'[e] # executions[e] =>
                         e = frame[i].childExecutionId /\ e # call[i].executionId
              /\ Len(executions') # Len(executions) =>
                     /\ Len(executions') = Len(executions) + 1
                     /\ frame[i].childExecutionId = 0
                     /\ frame'[i].childExecutionId = Len(executions')
                     /\ \A j \in Invocations \ {i} :
                            frame'[j].childExecutionId # Len(executions')
              /\ pc[i] = "await" /\ pc'[i] = "done" =>
                     LET own == executions[frame[i].childExecutionId]
                     IN  IF result'[i].success
                         THEN /\ own.present /\ own.status = "success"
                              /\ result'[i].data.executionId = frame[i].childExecutionId
                              /\ result'[i].data.workflowId = own.workflowId
                              /\ result'[i].data.output = own.output
                         ELSE \/ ~own.present
                              \/ /\ own.status # "success"
                                 /\ result'[i].error.message \in
                                        {own.error, "Child workflow execution failed."}]_vars

\* Two invocations of the same execution with the same target overlapped:
\* the second created its record first and returned that record's output
\* while the first, holding the later record, still waits for its child.
C32_Witness ==
    /\ call[1] = call[2]
    /\ call[1].targetWorkflowId = "w2"
    /\ call[1].executionId = 1
    /\ pc[1] = "await"
    /\ pc[2] = "done"
    /\ frame[2].childExecutionId = 2
    /\ frame[1].childExecutionId = 3
    /\ executions[3].output = "out1"
    /\ result[2] = [success |-> TRUE,
                    data |-> [workflowId |-> "w2", executionId |-> 2, output |-> "out2"]]

\* Every remote handle is held by the invocation that created it and by no
\* other, and no invocation asked for more than one.
HandlesUnshared ==
    /\ \A k \in DOMAIN sandboxes : stepLocal[sandboxes[k].owner].sandbox = k
    /\ \A s \in Steps, t \in Steps :
           s # t /\ stepLocal[s].sandbox # 0 => stepLocal[s].sandbox # stepLocal[t].sandbox
    /\ \A s \in Steps : stepCalls[s].create <= 1 /\ stepCalls[s].stop <= 1

\* C33: under any interleaving of step invocations, an invocation creates
\* at most one remote handle, the handle it holds is the one it created and
\* no other invocation holds it, and a step of an invocation (its cleanup
\* included) changes the state of no handle but the one it created.
C33_SessionPerInvocation ==
    /\ []HandlesUnshared
    /\ [][\A s \in Steps :
            stepPc'[s] # stepPc[s] =>
                /\ Len(sandboxes') \in {Len(sandboxes), Len(sandboxes) + 1}
                /\ Len(sandboxes') # Len(sandboxes) => stepLocal[s].sandbox = 0
                /\ \A k \in DOMAIN sandboxes :
                       sandboxes'[k] # sandboxes[k] =>
                           /\ k = stepLocal[s].sandbox
                           /\ sandboxes[k].owner = s
                           /\ stepPc[s] = "cleanup"]_vars

\* Two remote invocations overlapped: the second created its handle first;
\* the first has finished and its cleanup stopped its own handle, while the
\* handle of the second is live and in use.
C33_Witness ==
    /\ stepPc[1] = "done"
    /\ stepPc[2] = "run"
    /\ stepLocal[2].sandbox = 1
    /\ stepLocal[1].sandbox = 2
    /\ sandboxes[2].state = "stopped"
    /\ sandboxes[1].state = "live"
    /\ sandboxes[1].credentials = sandboxes[2].credentials

\* The key holds a value that is not blank.
KeySet(env, key) == env[key] \notin {Null, "", " "}

\* v is the value of the first key of order that is set; Null if none is.
FirstSetValue(order, env, v) ==
    IF \A k \in DOMAIN order : ~KeySet(env, order[k])
    THEN v = Null
    ELSE \E k \in DOMAIN order :
            /\ KeySet(env, order[k])
            /\ \A j \in 1..(k - 1) : ~KeySet(env, order[j])
            /\ v = env[order[k]]

\* C36: the runtime resolver returns the value of the first of DATABASE_URL,
\* POSTGRES_URL, POSTGRES_PRISMA_URL, POSTGRES_URL_NON_POOLING that is not
\* blank, the migration resolvers that of the first of
\* DATABASE_MIGRATION_URL, DIRECT_URL, POSTGRES_URL_NON_POOLING and then the
\* runtime keys; with no such key the plain resolvers return nothing and the
\* with-fallback resolvers the local default URL.
C36_FirstSetKeyWins ==
    lookup.applied =>
        LET runtimeOrder == <<"DATABASE_URL", "POSTGRES_URL", "POSTGRES_PRISMA_URL",
                              "POSTGRES_URL_NON_POOLING">>
            migrationOrder == <<"DATABASE_MIGRATION_URL", "DIRECT_URL",
                                "POSTGRES_URL_NON_POOLING">> \o runtimeOrder
        IN  /\ FirstSetValue(runtimeOrder, lookup.env, lookup.runtime)
            /\ FirstSetValue(migrationOrder, lookup.env, lookup.migration)
            /\ lookup.migrationSource = <<>> <=> lookup.migration = Null
            /\ lookup.migrationSource # <<>> =>
                   /\ lookup.migrationSource[1].value = lookup.migration
                   /\ lookup.env[lookup.migrationSource[1].key] = lookup.migration
            /\ lookup.runtimeWithFallback =
                   (IF lookup.runtime = Null THEN "postgres://localhost:5432/workflow"
                    ELSE lookup.runtime)
            /\ lookup.migrationWithFallback =
                   (IF lookup.migration = Null THEN "postgres://localhost:5432/workflow"
                    ELSE lookup.migration)

\* DATABASE_URL and DATABASE_MIGRATION_URL are blank, POSTGRES_URL and
\* DIRECT_URL are set: the blank keys were skipped in both orders.
C36_Witness ==
    /\ lookup.applied
    /\ lookup.env["DATABASE_URL"] = " "
    /\ lookup.env["DATABASE_MIGRATION_URL"] = " "
    /\ lookup.runtime = "postgres://host:5432/POSTGRES_URL"
    /\ lookup.migrationSource =
           <<[key |-> "DIRECT_URL", value |-> "postgres://host:5432/DIRECT_URL"]>>
    /\ lookup.env["POSTGRES_URL_NON_POOLING"] # Null

\* The text is a JSON value of the given shape between optional whitespace.
JsonObjectText(text) ==
    \E l \in Whitespace, r \in Whitespace :
        text \in {l \o "{}" \o r, l \o "{\"a\":1}" \o r}

JsonNonObjectText(text) ==
    \E l \in Whitespace, r \in Whitespace :
        text \in {l \o "[]" \o r, l \o "[1]" \o r, l \o "1" \o r}

BlankText(text) == \E l \in Whitespace, r \in Whitespace : text = l \o r

\* C37: the exported step never returns success; a non-blank workflowInput
\* that is not valid JSON fails with "workflowInput must be valid JSON", one
\* that parses to an array or a non-object with "workflowInput must be a
\* JSON object", and every other input (absent, blank, or a JSON object)
\* with the message that the Workflow Builder runtime is required.
C37_ExportNeverSucceeds ==
    exported.applied =>
        LET text == exported.input.workflowInput
            runtime == "Run Workflow requires the Workflow Builder runtime and is "
                           \o "not available in standalone export."
        IN  /\ exported.result.success = FALSE
            /\ exported.result.error.message =
                   (IF text = Null \/ BlankText(text) \/ JsonObjectText(text) THEN runtime
                    ELSE IF JsonNonObjectText(text)
                         THEN "workflowInput must be a JSON object"
                         ELSE "workflowInput must be valid JSON")

\* A JSON array between whitespace was refused as not being an object.
C37_Witness ==
    /\ exported.applied
    /\ exported.input.workflowInput = " [1]\n"
    /\ exported.result = buildError("workflowInput must be a JSON object")

\* The runs of the migrate command made so far against one URL.
RunsAgainst(url) == {k \in DOMAIN runner.runs : runner.runs[k].url = url}

WroteMissingTable(run) ==
    run.migrationResult.output \in
        {MissingTableText, EnetUnreachText \o MissingTableText}

WroteEnetUnreach(run) ==
    run.migrationResult.output \in
        {EnetUnreachText, EnetUnreachText \o MissingTableText}

\* The runs of the migrate command are bounded as the claim says.
BoundedRetries ==
    runner.pc # "none" =>
        /\ Len(runner.runs) <= 4
        /\ \A k \in DOMAIN runner.runs : Cardinality(RunsAgainst(runner.runs[k].url)) <= 2
        /\ \A k \in DOMAIN runner.runs \ {1} :
               LET run == runner.runs[k]
                   before == runner.runs[k - 1]
               IN  IF run.url = before.url
                   THEN \* the second run against a URL
                        /\ before.migrationResult.status # 0
                        /\ WroteMissingTable(before)
                        /\ \E b \in DOMAIN runner.bootstraps :
                               runner.bootstraps[b] = run.url
                   ELSE \* the fallback to the runtime URL
                        /\ run.attempt = "runtime"
                        /\ \A j \in 1..(k - 1) : runner.runs[j].attempt = "primary"
                        /\ before.migrationResult.status # 0
                        /\ WroteEnetUnreach(before)
                        /\ runner.runs[1].url = "postgres://db.abc123.supabase.co:5432/postgres"
                        /\ runner.runtimeDatabaseUrlSource # <<>>
                        /\ run.url = runner.runtimeDatabaseUrlSource[1].value

\* C34: against one database URL the migrate command runs at most twice,
\* the second time only after a first run that failed with the missing
\* supabase_migrations table error and a bootstrap of that table; the
\* runtime URL is tried at most once, only after a primary attempt that
\* failed with ENETUNREACH on a Supabase direct host, and it differs from the
\* primary URL; so a run makes at most 4 runs of the migrate command, and
\* every run of the script ends.
C34_BoundedRetries ==
    /\ []BoundedRetries
    /\ <>(runner.pc = "exited")

\* Four runs were made: the primary URL failed for the missing table, was
\* bootstrapped and failed with ENETUNREACH; the runtime URL went the same
\* way and its second run succeeded.
C34_Witness ==
    /\ runner.pc = "exited"
    /\ Len(runner.runs) = 4
    /\ Len(runner.bootstraps) = 2
    /\ runner.runs[2].attempt = "primary"
    /\ WroteEnetUnreach(runner.runs[2])
    /\ runner.runs[3].attempt = "runtime"
    /\ runner.runs[3].url # runner.runs[1].url
    /\ runner.success

\* No key of the migration order holds a value that is not blank.
NoDatabaseUrl ==
    \A key \in {"DATABASE_MIGRATION_URL", "DIRECT_URL", "POSTGRES_URL_NON_POOLING",
                 "DATABASE_URL", "POSTGRES_URL", "POSTGRES_PRISMA_URL"} :
        runner.env[key] \in {Null, "", " "}

LastRun == runner.runs[Len(runner.runs)]

\* C35: both scripts run the migrate command only in production; elsewhere
\* the script ends normally with no run made; in production with no database
\* URL it exits with status 1 with no run made; success is reported only
\* when the last run made of the migrate command (that of the fallback when
\* there was one) had no spawn error and exit status 0, and every other
\* production run exits with status 1.
C35_ProductionOnly ==
    runner.pc # "none" =>
        /\ runner.runs # <<>> => runner.VERCEL_ENV = "production"
        /\ runner.pc = "exited" =>
               /\ runner.VERCEL_ENV # "production" =>
                      runner.runs = <<>> /\ runner.exitCode = 0 /\ ~runner.success
               /\ runner.VERCEL_ENV = "production" /\ NoDatabaseUrl =>
                      runner.runs = <<>> /\ runner.exitCode = 1
               /\ runner.success =>
                      /\ runner.runs # <<>>
                      /\ ~LastRun.migrationResult.error
                      /\ LastRun.migrationResult.status = 0
                      /\ runner.exitCode = 0
               /\ runner.VERCEL_ENV = "production" /\ ~runner.success =>
                      runner.exitCode = 1

\* The primary attempt failed with ENETUNREACH, the fallback run could not
\* be spawned: the script exited with status 1 on the fallback's outcome.
C35_Witness ==
    /\ runner.pc = "exited"
    /\ Len(runner.runs) = 2
    /\ runner.runs[1].attempt = "primary"
    /\ runner.runs[2].attempt = "runtime"
    /\ runner.runs[2].migrationResult = [error |-> TRUE, status |-> -1, output |-> ""]
    /\ runner.exitCode = 1
    /\ ~runner.success

====
